---- MODULE Spec2Model ----
(***************************************************************************)
(* Model of the file-transfer pipeline of Tinzenite/channel: the transfer  *)
(* object (transfer.go), the admission record (sendtransfer.go), the       *)
(* per-address queues (queue.go), the background loop and the Tox          *)
(* callbacks (private.go) and the public operations (public.go).           *)
(*                                                                         *)
(* Threads: the goroutine run() (the coordinator), which also executes     *)
(* every Tox callback from inside tox.Iterate(); application threads       *)
(* calling SendFile and CancelFileTransfer; the thread calling Close.      *)
(* The Tox engine is an external collaborator: the model keeps the part of *)
(* its state that decides which events it can deliver (eng, online).       *)
(***************************************************************************)
EXTENDS Integers, Sequences, FiniteSets, TLC

\* ------------------------------------------------------------------ bounds
NumFriends == 1
MaxTransfers == 2
MaxFileNumber == 2
MaxSize == 1

\* sendTimeout, in admission-tick periods (the constant is compared in
\* sendTransfer.isStale; its declaration is not part of the sources at hand)
sendTimeout == 1

Friends == 1..NumFriends
FileNumbers == 1..MaxFileNumber
Sizes == 1..MaxSize
Positions == 0..MaxSize
Lengths == 0..MaxSize
Paths == {"p1", "p2"}

\* State enumeration (errors.go)
StNone == "none"
StSuccess == "success"
StFailed == "failed"
StCanceled == "canceled"
StTimeout == "timeout"

\* gotox constants used by the callbacks
ControlCancel == "CANCEL"
ControlResume == "RESUME"
ControlPause == "PAUSE"
FileControls == {ControlCancel, ControlResume, ControlPause}
ConnectionNone == "NONE"
ConnectionTCP == "TCP"
ConnectionUDP == "UDP"
Connections == {ConnectionNone, ConnectionTCP, ConnectionUDP}
KindData == "DATA"
KindAvatar == "AVATAR"
FileKinds == {KindData, KindAvatar}

VARIABLES
    online,      \* engine: friend number -> connection status is not NONE
    eng,         \* engine: file number -> the transfer the engine holds under it
    transfers,   \* channel.transfers: file number -> transfer (index into tr)
    sending,     \* channel.sending: address -> queue of transfers
    sendActive,  \* channel.sendActive: address -> sendTransfer
    tr,          \* the transfer objects: id -> transfer
    runPc,       \* run(): "running" | "stopped"
    wg,          \* channel.wg counter
    closePc,     \* Close(): "idle" | "stop" | "wait" | "clean" | "done", and
                 \* for a second call "stop2" | "wait2" | "clean2" | "done2"
    cancel,      \* CancelFileTransfer() in progress on an application thread
    app,         \* the application's callbacks: "prompt" | "slow"
    tasks,       \* callbacks running on goroutines of their own (their names)
    calling,     \* the application callback the coordinator is inside of
    probe        \* the locals of a caller that exercises transfer.go and queue.go

vars == <<online, eng, transfers, sending, sendActive, tr, runPc, wg, closePc, cancel,
          app, tasks, calling, probe>>

\* ---------------------------------------------------------------- helpers
EmptyMap == [x \in {} |-> 0]
MapPut(f, k, v) == [x \in (DOMAIN f) \cup {k} |-> IF x = k THEN v ELSE f[x]]
MapDel(f, k) == [x \in (DOMAIN f) \ {k} |-> f[x]]
Min(a, b) == IF a < b THEN a ELSE b

\* hex.EncodeToString(FriendGetPublickey(n)) and FriendByPublicKey(hex.Decode(a))
addressOf(friendnumber) == <<"pk", friendnumber>>
friendNumberOf(address) == address[2]
Addresses == {addressOf(f) : f \in Friends}

\* Transfer objects are heap objects: one that is closed and that neither the
\* registry, nor a queue, nor a running CancelFileTransfer refers to is garbage,
\* and a step drops the garbage it leaves.  The handlers below are operators
\* from a channel state to the channel state they leave, garbage included.
TransferIds == 1..MaxTransfers
Refs(S) ==
    {S.transfers[fn] : fn \in DOMAIN S.transfers}
    \cup UNION {{S.sending[a][i] : i \in 1..Len(S.sending[a])} : a \in DOMAIN S.sending}
Collect(S, refs) ==
    [S EXCEPT !.tr = [t \in {u \in DOMAIN S.tr : ~S.tr[u].isDone \/ u \in Refs(S) \cup refs}
                        |-> S.tr[t]]]
NewId(S) == CHOOSE t \in TransferIds \ DOMAIN S.tr :
                \A u \in TransferIds \ DOMAIN S.tr : t <= u

\* the channel state the handlers work on
Cur == [transfers |-> transfers, sending |-> sending, sendActive |-> sendActive,
        tr |-> tr, eng |-> eng,
        notes |-> {},   \* the callbacks the handler starts with "go"
        controls |-> <<>>,          \* the tox.FileControl calls the handler makes
        callbacks |-> app # "none", \* channel.callbacks != nil
        panic |-> FALSE] \* the handler has panicked (nil pointer dereference)
ApplyRefs(S, refs) ==
    /\ transfers' = S.transfers
    /\ sending' = S.sending
    /\ sendActive' = S.sendActive
    /\ tr' = Collect(S, refs).tr
    /\ eng' = S.eng
ApplyRef(S, ref) == ApplyRefs(S, {ref, calling.transfer})
Apply(S) == ApplyRef(S, cancel.transfer)

\* The application's callbacks.  A callback started with "go" runs on a
\* goroutine of its own; a callback called directly keeps the calling thread
\* until it returns.  With a prompt application every callback has returned
\* before the next step; with a slow one the goroutines stay (tasks) and the
\* coordinator stays inside the callback it calls (calling).
NoCall == [cb |-> "none", transfer |-> 0]
DoneCall(t) == [cb |-> "doneCallback", transfer |-> t]
AllowCall(f, fn, size) ==
    [cb |-> "OnAllowFile", transfer |-> 0, friend |-> f, fileNumber |-> fn, size |-> size]
Running == runPc = "running" /\ calling = NoCall
\* a panic on the coordinator's goroutine ends the program, every thread of
\* the application with it
Alive == runPc # "panicked"

\* the transfers of SendFile that the handler has closed: transfer.Close has
\* called the doneCallback the application passed (for a received file the
\* callback is the channel's own, which logs and returns)
ClosedOut(S) ==
    {t \in (DOMAIN S.tr) \cap (DOMAIN tr) :
        S.tr[t].out /\ S.tr[t].callbacks > tr[t].callbacks}

\* a step of the coordinator that runs a handler: to its end, or, with a slow
\* application, into the doneCallback of a transfer it closes (taken at the
\* end of the handler's changes)
Handle(S) ==
    /\ tasks' = IF app = "slow" THEN tasks \cup {n.cb : n \in S.notes} ELSE tasks
    /\ IF app = "slow" /\ ClosedOut(S) # {}
       THEN \E t \in ClosedOut(S) :
               /\ calling' = DoneCall(t)
               /\ ApplyRefs(S, {cancel.transfer, t})
       ELSE /\ calling' = calling
            /\ Apply(S)

\* ------------------------------------------------------------ transfer.go
\* the file handle of a transfer: an open *os.File, or nil
openFile == "file"
nilFile == "nil"

createTransfer(path, friendNumber, file, out, size) ==
    [path |-> path, friend |-> friendNumber, file |-> file, out |-> out, size |-> size,
     progress |-> 0, isDone |-> FALSE,
     \* observations of the calls made on the object
     state |-> StNone,        \* state the completion callback was called with
     firstState |-> StNone,   \* state of the first Close that closed it
     closeCalls |-> 0,        \* Close invocations (saturating at 2)
     fileCloses |-> 0,        \* file.Close invocations (saturating at 2)
     callbacks |-> 0,         \* doneCallback invocations (saturating at 2)
     chunked |-> FALSE,       \* a chunk request was handled while the peer's
                              \* admission was the one of this transfer
     ioAfterClose |-> FALSE]  \* a chunk ReadAt/WriteAt was issued after Close

SetProgress(t, value) == [t EXCEPT !.progress = value]

\* float32: the value m / 2^k with a mantissa m of at most 24 bits (k < 0
\* for m * 2^(-k)); every operation rounds to the nearest such value, ties to
\* the even mantissa
MantissaBits == 24
RoundEven(n, d) ==
    LET q == n \div d
        r == n % d
    IN  IF 2 * r > d \/ (2 * r = d /\ q % 2 = 1) THEN q + 1 ELSE q

\* float32(u) of an unsigned integer below 2^24 is exact
float32(u) == [m |-> u, k |-> 0]

\* a / b for a, b > 0: the quotient of the mantissas is scaled to 24 bits
RECURSIVE Scale(_, _, _)
Scale(n, d, k) == IF n * 2^k >= 2^(MantissaBits - 1) * d THEN k ELSE Scale(n, d, k + 1)
Quo32(a, b) ==
    LET k == Scale(a.m, b.m, 0)
    IN  [m |-> RoundEven(a.m * 2^k, b.m), k |-> k + a.k - b.k]

\* a * b: the product of the mantissas is cut back to 24 bits
RECURSIVE Excess(_, _)
Excess(n, j) == IF n \div 2^j < 2^MantissaBits THEN j ELSE Excess(n, j + 1)
Mul32(a, b) ==
    LET n == a.m * b.m
        j == Excess(n, 0)
    IN  [m |-> RoundEven(n, 2^j), k |-> a.k + b.k - j]

\* int(x) of a float32 in the range of int: the fraction is cut off
int(x) == IF x.k >= 0 THEN x.m \div 2^(x.k) ELSE x.m * 2^(0 - x.k)

\* math.MaxUint64, the largest progress SetProgress can be given, stands
\* apart from the integers of the model; uint64 values in their order
MaxUint64 == -1
ULeq(a, b) == b = MaxUint64 \/ (a # MaxUint64 /\ a <= b)

\* int(x) of a float32 beyond the range of int is implementation-dependent
\* (Go specification, Conversions): amd64 gives math.MinInt64, arm64
\* math.MaxInt64.  Both stand beyond every int computed in range.
MinInt64 == 0 - 2^30
MaxInt64 == 2^30
OutOfRange == {MinInt64, MaxInt64}

\* Percentage: the values the call can return.  For progress MaxUint64 and a
\* size below 2^8 the float32 product is at least 100 * 2^56 > 2^63.
Percentage(t) ==
    IF t.progress = 0 \/ t.size = 0 THEN {0}
    ELSE IF t.progress = MaxUint64 THEN OutOfRange
    ELSE {int(Mul32(float32(100), Quo32(float32(t.progress), float32(t.size))))}

\* a call of Close reaches its isDone test
Observe(t, state) == [t EXCEPT !.closeCalls = Min(@ + 1, 2)]

\* file.Sync and file.Close report an error for a nil handle
\* (os.ErrInvalid), and for an open one when the file system does (io)
fileErr(t, io) == t.file = nilFile \/ io

\* a Close that gives up when the file cannot be flushed or closed
closeBodyAbort(t, state, syncErr, closeErr) ==
    IF syncErr \/ closeErr
    THEN [t EXCEPT !.isDone = TRUE,
                   !.fileCloses = IF syncErr THEN @ ELSE Min(@ + 1, 2)]
    ELSE [t EXCEPT !.isDone = TRUE,
                   !.fileCloses = Min(@ + 1, 2),
                   !.callbacks = Min(@ + 1, 2),
                   !.firstState = IF t.callbacks = 0 THEN state ELSE @,
                   !.state = state]

\* Close past its isDone test: the flag, file.Sync and file.Close, whose
\* errors syncErr and closeErr are logged, and the doneCallback
closeBodyIO(t, state, syncErr, closeErr) ==
    [t EXCEPT !.isDone = TRUE,
              !.fileCloses = Min(@ + 1, 2),
              !.callbacks = Min(@ + 1, 2),
              !.firstState = IF t.callbacks = 0 THEN state ELSE @,
              !.state = state]

\* the Close calls of the channel: the file system reports no error
closeBody(t, state) == closeBodyIO(t, state, fileErr(t, FALSE), fileErr(t, FALSE))

TransferClose(t, state) ==
    IF t.isDone
    THEN Observe(t, state)
    ELSE closeBody(Observe(t, state), state)

\* a chunk read or write on the transfer's file
FileIO(t) == [t EXCEPT !.ioAfterClose = @ \/ t.isDone]

\* -------------------------------------------------------- sendtransfer.go
\* a buildSendTransfer whose admission counts as started from the beginning
buildSendTransferStarted(fileNumber) == [started |-> TRUE, age |-> 0, fileNumber |-> fileNumber]

buildSendTransfer(fileNumber) == [started |-> FALSE, age |-> 0, fileNumber |-> fileNumber]

\* an isStale that lets an admission wait forever
isStaleNever(st) == FALSE

isStale(st) == st.age > sendTimeout /\ ~st.started

\* ---------------------------------------------------------------- queue.go
\* a nil *transfer
nilTransfer == 0

queueAdd(q, t) == Append(q, t)

\* a queue that hands out its newest entry
queueHeadNewest(q) == q[Len(q)]

queueHead(q) == q[1]
queueRest(q) == IF Len(q) = 1 THEN <<>> ELSE Tail(q)

\* queue.get: the transfer returned and the queue left
queueGet(q) ==
    IF Len(q) = 0
    THEN [t |-> nilTransfer, q |-> q]
    ELSE [t |-> queueHead(q), q |-> queueRest(q)]

queueLength(q) == Len(q)

\* a queues.add that takes nil values too
queuesAddAny(qs, address, t) ==
    IF address \in DOMAIN qs
    THEN [qs EXCEPT ![address] = queueAdd(@, t)]
    ELSE MapPut(qs, address, queueAdd(<<>>, t))

queuesAdd(qs, address, t) ==
    IF t = nilTransfer THEN qs
    ELSE IF address \in DOMAIN qs
    THEN [qs EXCEPT ![address] = queueAdd(@, t)]
    ELSE MapPut(qs, address, queueAdd(<<>>, t))

\* queues.get: the transfer returned and the collection left
queuesGet(qs, address) ==
    IF address \notin DOMAIN qs
    THEN [t |-> nilTransfer, qs |-> qs]
    ELSE [t |-> queueGet(qs[address]).t,
          qs |-> [qs EXCEPT ![address] = queueGet(@).q]]

\* -------------------------------------------------------------- private.go
\* the calls of the Callbacks interface that the handlers start with "go";
\* entry is the key of the registry entry for which the statement was
\* executed (0: none), so that two calls with the same arguments are two
OnFriendRequest(address) ==
    [cb |-> "OnFriendRequest", address |-> address, path |-> "", entry |-> 0]
OnMessage(address) ==
    [cb |-> "OnMessage", address |-> address, path |-> "", entry |-> 0]
OnConnected(address) ==
    [cb |-> "OnConnected", address |-> address, path |-> "", entry |-> 0]
OnFileCanceled(address, path) ==
    [cb |-> "OnFileCanceled", address |-> address, path |-> path, entry |-> 0]
OnFileReceived(address, path) ==
    [cb |-> "OnFileReceived", address |-> address, path |-> path, entry |-> 0]

\* "if channel.callbacks != nil { go channel.callbacks.On...(..) }": the
\* notes of S with the calls started (without callbacks a line is logged)
goCallbacks(S, calls) == IF S.callbacks THEN S.notes \cup calls ELSE S.notes

MessageNormal == "NORMAL"
MessageAction == "ACTION"
MessageTypes == {MessageNormal, MessageAction}

onFriendRequest(S, address) == [S EXCEPT !.notes = goCallbacks(S, {OnFriendRequest(address)})]

onFriendMessage(S, friendnumber, messagetype) ==
    IF messagetype = MessageNormal
    THEN [S EXCEPT !.notes = goCallbacks(S, {OnMessage(addressOf(friendnumber))})]
    ELSE S

closeTransfer(S, fileNumber, reason) ==
    IF fileNumber \notin DOMAIN S.transfers
    THEN S
    ELSE [S EXCEPT !.tr[S.transfers[fileNumber]] = TransferClose(@, reason),
                   !.transfers = MapDel(@, fileNumber)]

\* The engine numbers a transfer with the first number it does not use, and
\* the number identifies the transfer among all the transfers it holds.
FreeNumbers(e) == {n \in FileNumbers \ DOMAIN e : \A m \in FileNumbers \ DOMAIN e : n <= m}

\* tox.FileSend: the results it can have: a file number, or an error (always
\* when the friend is not connected or no number is free)
FileSendErr == 0
FileSend(S, friendNumber) ==
    IF online[friendNumber]
    THEN FreeNumbers(S.eng) \cup {FileSendErr}
    ELSE {FileSendErr}

\* tox.FileControl(friend, fileNumber, CANCEL): the engine drops the transfer
FileControlCancel(S, fileNumber) == [S EXCEPT !.eng = MapDel(@, fileNumber)]

\* tox.FileControl(friend, fileNumber, control) called by a handler: the call
\* is recorded, with whether the registry holds the file number at that
\* moment; a cancel makes the engine drop the transfer
FileControl(S, fileNumber, control) ==
    LET S1 == IF control = ControlCancel THEN FileControlCancel(S, fileNumber) ELSE S
    IN  [S1 EXCEPT !.controls = Append(@, [control |-> control, fileNumber |-> fileNumber,
                                           tracked |-> fileNumber \in DOMAIN S.transfers])]

\* a triggerSend that gives up the whole queue when tox.FileSend fails
triggerSendDropQueue(S, address, t) ==
    { IF fileNumber = FileSendErr
      THEN [S EXCEPT !.tr[t] = TransferClose(@, StFailed),
                     !.sending[address] = <<>>]
      ELSE [S EXCEPT !.sendActive = MapPut(@, address, buildSendTransfer(fileNumber)),
                     !.transfers = MapPut(@, fileNumber, t),
                     !.eng = MapPut(@, fileNumber,
                                    [friend |-> S.tr[t].friend, out |-> TRUE,
                                     size |-> S.tr[t].size])]
      : fileNumber \in FileSend(S, S.tr[t].friend) }

\* the set of states triggerSend can leave, one per result of tox.FileSend
triggerSend(S, address, t) ==
    { IF fileNumber = FileSendErr
      THEN [S EXCEPT !.tr[t] = TransferClose(@, StFailed)]
      ELSE [S EXCEPT !.sendActive = MapPut(@, address, buildSendTransfer(fileNumber)),
                     !.transfers = MapPut(@, fileNumber, t),
                     !.eng = MapPut(@, fileNumber,
                                    [friend |-> S.tr[t].friend, out |-> TRUE,
                                     size |-> S.tr[t].size])]
      : fileNumber \in FileSend(S, S.tr[t].friend) }

\* body of the loop "for address, ready := range channel.sending"
sendStep(S, address) ==
    IF address \notin DOMAIN S.sendActive
    THEN IF S.sending[address] = <<>>
         THEN {S}
         ELSE triggerSend([S EXCEPT !.sending[address] = queueRest(@)],
                          address, queueHead(S.sending[address]))
    ELSE IF isStale(S.sendActive[address])
         THEN {[closeTransfer(S, S.sendActive[address].fileNumber, StTimeout)
                   EXCEPT !.sendActive = MapDel(@, address)]}
         ELSE {S}

\* the whole "case <-sendTicker" branch; the map is ranged over in any order
RECURSIVE sendCycle(_, _)
sendCycle(S, todo) ==
    IF todo = {}
    THEN {S}
    ELSE UNION { UNION { sendCycle(S2, todo \ {a}) : S2 \in sendStep(S, a) } : a \in todo }

\* the visits of one "case <-sendTicker" branch: the state in which the loop
\* body is entered for an address, the address, and the state it leaves
RECURSIVE sendVisits(_, _)
sendVisits(S, todo) ==
    IF todo = {}
    THEN {}
    ELSE UNION { UNION { {<<S, a, S2>>} \cup sendVisits(S2, todo \ {a}) : S2 \in sendStep(S, a) }
                 : a \in todo }

\* the handler without its delete(channel.sendActive, address)
onFriendConnectionStatusChangesKeepActive(S, friendnumber, connectionstatus) ==
    LET canceled == {fn \in DOMAIN S.transfers : S.tr[S.transfers[fn]].friend = friendnumber}
        closed == {S.transfers[fn] : fn \in canceled}
        address == addressOf(friendnumber)
    IN  [S EXCEPT !.tr = [t \in DOMAIN S.tr |->
                            IF t \in closed THEN TransferClose(S.tr[t], StFailed)
                                            ELSE S.tr[t]],
                  !.transfers = [fn \in (DOMAIN S.transfers) \ canceled |-> S.transfers[fn]],
                  !.notes = goCallbacks(S,
                                {[OnFileCanceled(address, S.tr[S.transfers[fn]].path)
                                     EXCEPT !.entry = fn] : fn \in canceled}
                                \cup (IF connectionstatus = ConnectionNone
                                      THEN {} ELSE {OnConnected(address)}))]

\* the handler telling OnConnected whatever the new status is
onFriendConnectionStatusChangesTellAlways(S, friendnumber, connectionstatus) ==
    LET canceled == {fn \in DOMAIN S.transfers : S.tr[S.transfers[fn]].friend = friendnumber}
        closed == {S.transfers[fn] : fn \in canceled}
        address == addressOf(friendnumber)
    IN  [S EXCEPT !.tr = [t \in DOMAIN S.tr |->
                            IF t \in closed THEN TransferClose(S.tr[t], StFailed)
                                            ELSE S.tr[t]],
                  !.transfers = [fn \in (DOMAIN S.transfers) \ canceled |-> S.transfers[fn]],
                  !.sendActive = MapDel(@, address),
                  !.notes = goCallbacks(S,
                                {[OnFileCanceled(address, S.tr[S.transfers[fn]].path)
                                     EXCEPT !.entry = fn] : fn \in canceled}
                                \cup {OnConnected(address)})]

onFriendConnectionStatusChanges(S, friendnumber, connectionstatus) ==
    LET canceled == {fn \in DOMAIN S.transfers : S.tr[S.transfers[fn]].friend = friendnumber}
        closed == {S.transfers[fn] : fn \in canceled}
        address == addressOf(friendnumber)
    IN  [S EXCEPT !.tr = [t \in DOMAIN S.tr |->
                            IF t \in closed THEN TransferClose(S.tr[t], StFailed)
                                            ELSE S.tr[t]],
                  !.transfers = [fn \in (DOMAIN S.transfers) \ canceled |-> S.transfers[fn]],
                  !.sendActive = MapDel(@, address),
                  !.notes = goCallbacks(S,
                                {[OnFileCanceled(address, S.tr[S.transfers[fn]].path)
                                     EXCEPT !.entry = fn] : fn \in canceled}
                                \cup (IF connectionstatus = ConnectionNone
                                      THEN {} ELSE {OnConnected(address)}))]

\* an onFileRecvControl that takes every control signal for a cancel
onFileRecvControlAnySignal(S, friendnumber, filenumber, fileControl) ==
    IF filenumber \notin DOMAIN S.transfers THEN S
    ELSE [closeTransfer(S, filenumber, StCanceled)
             EXCEPT !.sendActive = MapDel(@, addressOf(friendnumber)),
                    !.notes = goCallbacks(S,
                                  {[OnFileCanceled(addressOf(friendnumber),
                                                   S.tr[S.transfers[filenumber]].path)
                                       EXCEPT !.entry = filenumber]})]

onFileRecvControl(S, friendnumber, filenumber, fileControl) ==
    IF fileControl # ControlCancel THEN S
    ELSE IF filenumber \notin DOMAIN S.transfers THEN S
    ELSE [closeTransfer(S, filenumber, StCanceled)
             EXCEPT !.sendActive = MapDel(@, addressOf(friendnumber)),
                    !.notes = goCallbacks(S,
                                  {[OnFileCanceled(addressOf(friendnumber),
                                                   S.tr[S.transfers[filenumber]].path)
                                       EXCEPT !.entry = filenumber]})]

\* os.Create(path): the file, or nil with an error (which is logged)
osCreate(created) == IF created THEN openFile ELSE nilFile

\* an onFileRecv that accepts the file before it registers the transfer
onFileRecvResumeFirst(S, friendnumber, fileNumber, kind, filesize, accept, path, created) ==
    IF kind # KindData THEN FileControl(S, fileNumber, ControlCancel)
    ELSE IF ~S.callbacks THEN S
    ELSE IF ~accept THEN S
    ELSE LET S1 == FileControl(S, fileNumber, ControlResume)
         IN  [S1 EXCEPT !.tr = MapPut(@, NewId(S),
                                      createTransfer(path, friendnumber, osCreate(created),
                                                     FALSE, filesize)),
                        !.transfers = MapPut(@, fileNumber, NewId(S))]

\* accept and path are what OnAllowFile returns (it is called only past the
\* tests of the kind and of channel.callbacks)
onFileRecv(S, friendnumber, fileNumber, kind, filesize, accept, path, created) ==
    IF kind # KindData THEN FileControl(S, fileNumber, ControlCancel)
    ELSE IF ~S.callbacks THEN S
    ELSE IF ~accept THEN S
    ELSE FileControl([S EXCEPT !.tr = MapPut(@, NewId(S),
                                             createTransfer(path, friendnumber,
                                                            osCreate(created), FALSE, filesize)),
                               !.transfers = MapPut(@, fileNumber, NewId(S))],
                     fileNumber, ControlResume)

onFileRecvChunk(S, friendnumber, fileNumber, position, length) ==
    IF fileNumber \notin DOMAIN S.transfers
    THEN IF length = 0 THEN S ELSE FileControl(S, fileNumber, ControlCancel)
    ELSE LET t == S.transfers[fileNumber]
             S1 == [S EXCEPT !.tr[t] = SetProgress(FileIO(@), position + length)]
         IN  IF position + length >= S.tr[t].size
             THEN IF S.tr[t].file = nilFile
                  THEN [S1 EXCEPT !.panic = TRUE]   \* tran.file.Name() of a nil *os.File
                  ELSE [closeTransfer(S1, fileNumber, StSuccess)
                           EXCEPT !.notes = goCallbacks(S, {OnFileReceived(addressOf(friendnumber),
                                                                           S.tr[t].path)})]
             ELSE S1

\* uint64 arithmetic of the chunk request, on a scaled word
WordMod == 16
clampLength(position, length, size) ==
    IF (length + position) % WordMod > size
    THEN (size - position) % WordMod
    ELSE length

\* make([]byte, length): a length beyond the int range panics ("makeslice:
\* len out of range"); the sizes of files are int64 and inside the range
MaxInt == (WordMod \div 2) - 1
makeslicePanics(length) == length > MaxInt

\* an onFileChunkRequest that gives the admission up when streaming begins
onFileChunkRequestDropAdmission(S, friendNumber, fileNumber, position, len, readOk) ==
    IF fileNumber \notin DOMAIN S.transfers THEN S
    ELSE LET t == S.transfers[fileNumber]
             address == addressOf(friendNumber)
             S1 == [S EXCEPT !.sendActive = MapDel(@, address)]
             length == clampLength(position, len, S.tr[t].size)
         IN  IF length = 0
             THEN closeTransfer(S1, fileNumber, StSuccess)
             ELSE IF makeslicePanics(length)
             THEN [S1 EXCEPT !.panic = TRUE]
             ELSE IF ~readOk \/ S.tr[t].isDone
                  THEN [S1 EXCEPT !.tr[t] = FileIO(@)]
                  ELSE [S1 EXCEPT !.tr[t] = SetProgress(FileIO(@), (position + length) % WordMod)]

onFileChunkRequest(S, friendNumber, fileNumber, position, len, readOk) ==
    IF fileNumber \notin DOMAIN S.transfers THEN S
    ELSE LET t == S.transfers[fileNumber]
             address == addressOf(friendNumber)
             S1 == IF address \in DOMAIN S.sendActive
                   THEN [S EXCEPT !.sendActive[address].started = TRUE,
                                  !.tr[t].chunked =
                                      @ \/ S.sendActive[address].fileNumber = fileNumber]
                   ELSE S
             length == clampLength(position, len, S.tr[t].size)
         IN  IF length = 0
             THEN [closeTransfer(S1, fileNumber, StSuccess)
                      EXCEPT !.sendActive = MapDel(@, address)]
             ELSE IF makeslicePanics(length)
             THEN [S1 EXCEPT !.panic = TRUE]
             ELSE IF ~readOk \/ S.tr[t].isDone
                  THEN [S1 EXCEPT !.tr[t] = FileIO(@)]
                  ELSE [S1 EXCEPT !.tr[t] = SetProgress(FileIO(@), (position + length) % WordMod)]
\* ---------------------------------------------------------------- public.go
errOffline == "address is not online"
errTransferNotFound == "could not determine transfer for file name"
nil == "nil"

\* SendFile: what it returns and the state it leaves.  os.Open and file.Stat
\* succeed (the caller passes the resulting size).  The transfer is appended
\* to the queue of the address on the caller's thread; its admission is the
\* send tick's (the triggerSend(address) that public.go calls after the append
\* is of a revision of private.go other than the one modelled, whose
\* triggerSend takes the dequeued transfer).
\* "file" is what os.Open and file.Stat do for the path; opens and closes
\* count the calls of os.Open that succeed and of file.Close within SendFile.
\* IsAddressOnline is false for an address that is no friend's.
FileOk == "ok"
OpenFails == "os.Open fails"
StatFails == "file.Stat fails"
FileOutcomes == {FileOk, OpenFails, StatFails}
errOpen == "open error"
errStat == "stat error"

\* a SendFile that forgets the open file when file.Stat fails
sendFileLeak(S, address, path, size, file) ==
    IF friendNumberOf(address) \notin DOMAIN online \/ ~online[friendNumberOf(address)]
    THEN [ret |-> errOffline, S |-> S, opens |-> 0, closes |-> 0]
    ELSE IF file = OpenFails
    THEN [ret |-> errOpen, S |-> S, opens |-> 0, closes |-> 0]
    ELSE IF file = StatFails
    THEN [ret |-> errStat, S |-> S, opens |-> 1, closes |-> 0]
    ELSE [ret |-> nil,
          S |-> [S EXCEPT !.tr = MapPut(@, NewId(S),
                                        createTransfer(path, friendNumberOf(address), openFile, TRUE, size)),
                          !.sending = queuesAdd(@, address, NewId(S))],
          opens |-> 1, closes |-> 0]

sendFile(S, address, path, size, file) ==
    IF friendNumberOf(address) \notin DOMAIN online \/ ~online[friendNumberOf(address)]
    THEN [ret |-> errOffline, S |-> S, opens |-> 0, closes |-> 0]
    ELSE IF file = OpenFails
    THEN [ret |-> errOpen, S |-> S, opens |-> 0, closes |-> 0]
    ELSE IF file = StatFails
    THEN [ret |-> errStat, S |-> S, opens |-> 1, closes |-> 1]
    ELSE [ret |-> nil,
          S |-> [S EXCEPT !.tr = MapPut(@, NewId(S),
                                        createTransfer(path, friendNumberOf(address), openFile, TRUE, size)),
                          !.sending = queuesAdd(@, address, NewId(S))],
          opens |-> 1, closes |-> 0]

\* CancelFileTransfer: the transfers its lookup loop can stop at
cancelFound(S, path) == {fn \in DOMAIN S.transfers : S.tr[S.transfers[fn]].path = path}

\* what CancelFileTransfer returns, from the state in which it runs its lookup
cancelFileTransfer(S, path) == IF cancelFound(S, path) = {} THEN errTransferNotFound ELSE nil

\* CancelFileTransfer after the lookup: tox.FileControl(.., CANCEL) and the
\* isDone test of transfer.Close(StCanceled); then the rest of that Close;
\* then delete(channel.transfers, fileNumber)
cancelControl(S, fileNumber, t) ==
    [S EXCEPT !.eng = IF fileNumber \in DOMAIN S.eng /\ S.eng[fileNumber].friend = S.tr[t].friend
                      THEN MapDel(@, fileNumber) ELSE @,
              !.tr[t] = Observe(@, StCanceled)]

cancelClose(S, t) == [S EXCEPT !.tr[t] = closeBody(@, StCanceled)]

cancelDelete(S, fileNumber) == [S EXCEPT !.transfers = MapDel(@, fileNumber)]

\* Close, after the loop has ended: every registered transfer is closed
closeClean(S) ==
    [S EXCEPT !.tr = [t \in DOMAIN S.tr |->
                        IF \E fn \in DOMAIN S.transfers : S.transfers[fn] = t
                        THEN TransferClose(S.tr[t], StCanceled) ELSE S.tr[t]]]

\* ------------------------------------------------------------------- Init
\* the friends the tox instance knows, and their addresses
FriendList == DOMAIN online
AddressList == {addressOf(f) : f \in FriendList}

CancelIdle == [pc |-> "idle", fileNumber |-> 0, transfer |-> 0]

Start(application, friends) ==
    /\ app = application
    /\ tasks = {}
    /\ calling = NoCall
    /\ online = [f \in friends |-> FALSE]
    /\ eng = EmptyMap
    /\ transfers = EmptyMap
    /\ sending = EmptyMap
    /\ sendActive = EmptyMap
    /\ tr = EmptyMap
    /\ runPc = "running"
    /\ wg = 1
    /\ closePc = "idle"
    /\ cancel = CancelIdle

NoProbe == [on |-> "none"]

Init == Start("prompt", Friends) /\ probe = NoProbe

\* ------------------------------------------------- run(): the select cases
\* case <-channel.stop: the send of a Close call is received
RunStop ==
    /\ Running
    /\ closePc \in {"stop", "stop2"}
    /\ wg' = wg - 1
    /\ runPc' = "stopped"
    /\ closePc' = IF closePc = "stop" THEN "wait" ELSE "wait2"
    /\ UNCHANGED <<tr, online, eng, transfers, sending, sendActive, cancel, app, probe, tasks, calling>>

\* case <-bootTicker: nothing of the channel changes, whether the bootstrap
\* is skipped, succeeds or fails
BootTick ==
    /\ Running
    /\ UNCHANGED <<tr, online, eng, transfers, sending, sendActive, runPc, wg, closePc, cancel, app, probe, tasks, calling>>

\* case <-sendTicker
SendTick ==
    /\ Running
    /\ \E S \in sendCycle(Cur, DOMAIN sending) : Handle(S)
    /\ UNCHANGED <<online, runPc, wg, closePc, cancel, app, probe>>

\* case <-iterateTicker: tox.Iterate() advances the engine and runs the
\* callback of the event it has to deliver
EngDropFriend(e, f) == [fn \in {n \in DOMAIN e : e[n].friend # f} |-> e[fn]]

IterateConnectionStatus(f, status) ==
    /\ Running
    /\ status = ConnectionNone => online[f]
    /\ online' = [online EXCEPT ![f] = (status # ConnectionNone)]
    /\ LET S0 == [Cur EXCEPT !.eng = IF status = ConnectionNone
                                     THEN EngDropFriend(eng, f) ELSE eng]
       IN Handle(onFriendConnectionStatusChanges(S0, f, status))
    /\ UNCHANGED <<runPc, wg, closePc, cancel, app, probe>>

IterateFileControl(f, fn, control) ==
    /\ Running
    /\ fn \in DOMAIN eng
    /\ eng[fn].friend = f
    /\ LET S0 == IF control = ControlCancel THEN FileControlCancel(Cur, fn) ELSE Cur
       IN Handle(onFileRecvControl(S0, f, fn, control))
    /\ UNCHANGED <<online, runPc, wg, closePc, cancel, app, probe>>

IterateFileRecv(f, fn, kind, size, accept, path, created) ==
    /\ Running
    /\ online[f]
    /\ fn \in FreeNumbers(eng)
    /\ DOMAIN tr # TransferIds
    /\ LET S0 == [Cur EXCEPT !.eng = MapPut(@, fn, [friend |-> f, out |-> FALSE, size |-> size])]
       IN  IF app = "slow" /\ kind = KindData
           THEN /\ Apply(S0)
                /\ calling' = AllowCall(f, fn, size)
                /\ UNCHANGED tasks
           ELSE Handle(onFileRecv(S0, f, fn, kind, size, accept, path, created))
    /\ UNCHANGED <<online, runPc, wg, closePc, cancel, app, probe>>

\* OnAllowFile returns to onFileRecv, which goes on with the answer
AllowReturns(accept, path, created) ==
    /\ runPc = "running"
    /\ calling.cb = "OnAllowFile"
    /\ accept => DOMAIN tr # TransferIds
    /\ Apply(onFileRecv(Cur, calling.friend, calling.fileNumber, KindData,
                        calling.size, accept, path, created))
    /\ calling' = NoCall
    /\ UNCHANGED <<online, runPc, wg, closePc, cancel, app, probe, tasks>>

\* the doneCallback of a transfer returns to transfer.Close
DoneReturns ==
    /\ runPc = "running"
    /\ calling.cb = "doneCallback"
    /\ calling' = NoCall
    /\ ApplyRefs(Cur, {cancel.transfer})
    /\ UNCHANGED <<online, runPc, wg, closePc, cancel, app, probe, tasks>>

IterateFriendRequest(f) ==
    /\ Running
    /\ Handle(onFriendRequest(Cur, addressOf(f)))
    /\ UNCHANGED <<online, runPc, wg, closePc, cancel, app, probe>>

IterateFriendMessage(f, messagetype) ==
    /\ Running
    /\ online[f]
    /\ Handle(onFriendMessage(Cur, f, messagetype))
    /\ UNCHANGED <<online, runPc, wg, closePc, cancel, app, probe>>

\* a panic in a handler is recovered nowhere: the program ends, and what it
\* held in memory is gone
Panic ==
    /\ runPc' = "panicked"
    /\ transfers' = EmptyMap
    /\ sending' = EmptyMap
    /\ sendActive' = EmptyMap
    /\ tr' = EmptyMap
    /\ eng' = EmptyMap
    /\ tasks' = {}
    /\ cancel' = CancelIdle
    /\ closePc' = "idle"
    /\ wg' = 0
    /\ UNCHANGED <<online, app, probe, calling>>

\* the engine asks for / delivers chunks inside the announced size; the chunk
\* of length 0 ends the transfer on the engine's side
ChunkOf(fn, position, length) ==
    /\ position + length <= eng[fn].size
    /\ length = 0 => position = eng[fn].size

IterateFileRecvChunk(f, fn, position, length) ==
    /\ Running
    /\ fn \in DOMAIN eng
    /\ eng[fn].friend = f
    /\ ~eng[fn].out
    /\ ChunkOf(fn, position, length)
    /\ LET S0 == IF length = 0 THEN FileControlCancel(Cur, fn) ELSE Cur
           S == onFileRecvChunk(S0, f, fn, position, length)
       IN  IF S.panic
           THEN Panic
           ELSE /\ Handle(S)
                /\ UNCHANGED <<online, runPc, wg, closePc, cancel, app, probe>>

IterateFileChunkRequest(f, fn, position, length, readOk) ==
    /\ Running
    /\ fn \in DOMAIN eng
    /\ eng[fn].friend = f
    /\ eng[fn].out
    /\ ChunkOf(fn, position, length)
    /\ LET S0 == IF length = 0 THEN FileControlCancel(Cur, fn) ELSE Cur
           S == onFileChunkRequest(S0, f, fn, position, length, readOk)
       IN  IF S.panic
           THEN Panic
           ELSE /\ Handle(S)
                /\ UNCHANGED <<online, runPc, wg, closePc, cancel, app, probe>>

\* The chunk callbacks at the grain of the threads: tox.Iterate() decides to
\* call the handler (the engine's part), and the handler's body runs after
\* whatever another thread does in between.
ChunkCall(cb, f, fn, position, length) ==
    [cb |-> cb, transfer |-> 0, friend |-> f, fileNumber |-> fn,
     position |-> position, length |-> length]

DispatchFileRecvChunk(f, fn, position, length) ==
    /\ Running
    /\ fn \in DOMAIN eng
    /\ eng[fn].friend = f
    /\ ~eng[fn].out
    /\ ChunkOf(fn, position, length)
    /\ Apply(IF length = 0 THEN FileControlCancel(Cur, fn) ELSE Cur)
    /\ calling' = ChunkCall("onFileRecvChunk", f, fn, position, length)
    /\ UNCHANGED <<online, runPc, wg, closePc, cancel, app, probe, tasks>>

DispatchFileChunkRequest(f, fn, position, length) ==
    /\ Running
    /\ fn \in DOMAIN eng
    /\ eng[fn].friend = f
    /\ eng[fn].out
    /\ ChunkOf(fn, position, length)
    /\ Apply(IF length = 0 THEN FileControlCancel(Cur, fn) ELSE Cur)
    /\ calling' = ChunkCall("onFileChunkRequest", f, fn, position, length)
    /\ UNCHANGED <<online, runPc, wg, closePc, cancel, app, probe, tasks>>

\* the body of the handler that was called
ChunkRuns(readOk) ==
    /\ runPc = "running"
    /\ calling.cb \in {"onFileRecvChunk", "onFileChunkRequest"}
    /\ LET S == IF calling.cb = "onFileRecvChunk"
                THEN onFileRecvChunk(Cur, calling.friend, calling.fileNumber,
                                     calling.position, calling.length)
                ELSE onFileChunkRequest(Cur, calling.friend, calling.fileNumber,
                                        calling.position, calling.length, readOk)
       IN  IF S.panic
           THEN Panic
           ELSE /\ Apply(S)
                /\ calling' = NoCall
                /\ UNCHANGED <<online, runPc, wg, closePc, cancel, app, probe, tasks>>

\* tox.Iterate() returns an error: it is logged, and the loop goes on
IterateError ==
    /\ Running
    /\ UNCHANGED <<tr, online, eng, transfers, sending, sendActive, runPc, wg, closePc, cancel, app, probe, tasks, calling>>

IterateTick ==
    \/ IterateError
    \/ \E f \in FriendList : IterateFriendRequest(f)
    \/ \E f \in FriendList, messagetype \in MessageTypes : IterateFriendMessage(f, messagetype)
    \/ \E f \in FriendList, status \in Connections : IterateConnectionStatus(f, status)
    \/ \E f \in FriendList, fn \in FileNumbers, control \in FileControls :
          IterateFileControl(f, fn, control)
    \/ \E f \in FriendList, fn \in FileNumbers, kind \in FileKinds, size \in Sizes,
          accept \in BOOLEAN, path \in Paths, created \in BOOLEAN :
          IterateFileRecv(f, fn, kind, size, accept, path, created)
    \/ \E f \in FriendList, fn \in FileNumbers, position \in Positions, length \in Lengths :
          IterateFileRecvChunk(f, fn, position, length)
    \/ \E f \in FriendList, fn \in FileNumbers, position \in Positions, length \in Lengths,
          readOk \in BOOLEAN :
          IterateFileChunkRequest(f, fn, position, length, readOk)

\* time.Since(began) grows for every admission; it is read by isStale only,
\* which no longer depends on it once the admission has started or is stale
Aging(st) == ~st.started /\ st.age <= sendTimeout
TimePasses ==
    /\ Alive
    /\ \E a \in DOMAIN sendActive : Aging(sendActive[a])
    /\ sendActive' = [a \in DOMAIN sendActive |->
                        IF Aging(sendActive[a])
                        THEN [sendActive[a] EXCEPT !.age = @ + 1]
                        ELSE sendActive[a]]
    /\ UNCHANGED <<tr, online, eng, transfers, sending, runPc, wg, closePc, cancel, app, probe, tasks, calling>>

\* ------------------------------------------- public operations, as threads
\* the transfer objects waiting in a queue of channel.sending
Queued == UNION {{sending[a][i] : i \in 1..Len(sending[a])} : a \in DOMAIN sending}

SendFile(address, path, size, file) ==
    /\ Alive
    /\ DOMAIN tr # TransferIds
    /\ Apply(sendFile(Cur, address, path, size, file).S)
    /\ UNCHANGED <<online, runPc, wg, closePc, cancel, app, probe, tasks, calling>>

\* CancelFileTransfer runs on the caller's thread and takes no lock: the
\* coordinator can run between its lookup, its FileControl, the isDone test of
\* its Close, the rest of that Close, and its delete
\* a lookup that, finding nothing in the registry, cancels what waits in the
\* queues under the path
CancelFindQueued(path) ==
    /\ Alive
    /\ cancel.pc = "idle"
    /\ IF cancelFound(Cur, path) = {}
       THEN /\ UNCHANGED cancel
            /\ Apply([Cur EXCEPT
                        !.sending = [a \in DOMAIN sending |->
                                       SelectSeq(sending[a], LAMBDA t : tr[t].path # path)],
                        !.tr = [t \in DOMAIN tr |->
                                  IF t \in Queued /\ tr[t].path = path
                                  THEN TransferClose(tr[t], StCanceled) ELSE tr[t]]])
       ELSE /\ \E fn \in cancelFound(Cur, path) :
                  cancel' = [pc |-> "found", fileNumber |-> fn, transfer |-> transfers[fn]]
            /\ UNCHANGED <<tr, eng, transfers, sending, sendActive>>
    /\ UNCHANGED <<online, runPc, wg, closePc, app, probe, tasks, calling>>

CancelFind(path) ==
    /\ Alive
    /\ cancel.pc = "idle"
    /\ IF cancelFound(Cur, path) = {}
       THEN UNCHANGED cancel
       ELSE \E fn \in cancelFound(Cur, path) :
               cancel' = [pc |-> "found", fileNumber |-> fn, transfer |-> transfers[fn]]
    /\ UNCHANGED <<tr, online, eng, transfers, sending, sendActive, runPc, wg, closePc, app, probe, tasks, calling>>

CancelControl ==
    /\ Alive
    /\ cancel.pc = "found"
    /\ IF tr[cancel.transfer].isDone
       THEN /\ ApplyRef(cancelControl(Cur, cancel.fileNumber, cancel.transfer), 0)
            /\ cancel' = [cancel EXCEPT !.pc = "closed", !.transfer = 0]
       ELSE /\ Apply(cancelControl(Cur, cancel.fileNumber, cancel.transfer))
            /\ cancel' = [cancel EXCEPT !.pc = "closing"]
    /\ UNCHANGED <<online, runPc, wg, closePc, app, probe, tasks, calling>>

CancelClose ==
    /\ Alive
    /\ cancel.pc = "closing"
    /\ ApplyRef(cancelClose(Cur, cancel.transfer), 0)
    /\ cancel' = [cancel EXCEPT !.pc = "closed", !.transfer = 0]
    /\ UNCHANGED <<online, runPc, wg, closePc, app, probe, tasks, calling>>

CancelDelete ==
    /\ Alive
    /\ cancel.pc = "closed"
    /\ ApplyRef(cancelDelete(Cur, cancel.fileNumber), 0)
    /\ cancel' = CancelIdle
    /\ UNCHANGED <<online, runPc, wg, closePc, app, probe, tasks, calling>>

CancelFileTransfer ==
    \/ \E path \in Paths : CancelFind(path)
    \/ CancelControl
    \/ CancelClose
    \/ CancelDelete

\* Close: channel.stop <- true blocks until run() receives it
CloseStop ==
    /\ Alive
    /\ closePc = "idle"
    /\ closePc' = "stop"
    /\ UNCHANGED <<tr, online, eng, transfers, sending, sendActive, runPc, wg, cancel, app, probe, tasks, calling>>

\* channel.wg.Wait() and channel.tox.Kill()
CloseKill ==
    /\ Alive
    /\ closePc \in {"wait", "wait2"}
    /\ wg = 0
    /\ eng' = EmptyMap
    /\ online' = [f \in FriendList |-> FALSE]
    /\ closePc' = IF closePc = "wait" THEN "clean" ELSE "clean2"
    /\ UNCHANGED <<tr, transfers, sending, sendActive, runPc, wg, cancel, app, probe, tasks, calling>>

\* for _, transfer := range channel.transfers { transfer.Close(StCanceled) }
CloseClean ==
    /\ Alive
    /\ closePc \in {"clean", "clean2"}
    /\ Apply(closeClean(Cur))
    /\ closePc' = IF closePc = "clean" THEN "done" ELSE "done2"
    /\ UNCHANGED <<online, runPc, wg, cancel, app, probe, tasks, calling>>

Close == CloseStop \/ CloseKill \/ CloseClean

\* Close is called once more after it has returned: channel.stop <- true
CloseAgain ==
    /\ Alive
    /\ closePc = "done"
    /\ closePc' = "stop2"
    /\ UNCHANGED <<tr, online, eng, transfers, sending, sendActive, runPc, wg, cancel, app, probe, tasks, calling>>

Next ==
    \/ RunStop
    \/ BootTick
    \/ SendTick
    \/ IterateTick
    \/ TimePasses
    \/ \E address \in AddressList, path \in Paths, size \in Sizes, file \in FileOutcomes :
          SendFile(address, path, size, file)
    \/ CancelFileTransfer
    \/ Close

Spec == Init /\ [][Next]_vars

\* The two parts of the program in which its properties are examined.
\* The loop of run() with the threads of the application that call SendFile
\* and CancelFileTransfer, Close not being called:
LoopNext ==
    \/ BootTick
    \/ SendTick
    \/ IterateTick
    \/ TimePasses
    \/ \E address \in AddressList, path \in Paths, size \in Sizes, file \in FileOutcomes :
          SendFile(address, path, size, file)
    \/ CancelFileTransfer

LoopSpec == Init /\ [][LoopNext]_vars

\* Close against the loop and the threads of the application: the select of
\* run() with the stop case, the ticks, the connection and inbound-file
\* callbacks, SendFile, CancelFileTransfer and Close.
StopNext ==
    \/ RunStop
    \/ BootTick
    \/ SendTick
    \/ IterateError
    \/ \E f \in FriendList, status \in Connections : IterateConnectionStatus(f, status)
    \/ \E f \in FriendList, fn \in FileNumbers, kind \in FileKinds, size \in Sizes,
          accept \in BOOLEAN, path \in Paths, created \in BOOLEAN :
          IterateFileRecv(f, fn, kind, size, accept, path, created)
    \/ \E f \in FriendList, fn \in FileNumbers, position \in Positions, length \in Lengths :
          IterateFileRecvChunk(f, fn, position, length)
    \/ \E address \in AddressList, path \in Paths, size \in Sizes, file \in FileOutcomes :
          SendFile(address, path, size, file)
    \/ CancelFileTransfer
    \/ Close

StopSpec == Init /\ [][StopNext]_vars

\* While run() is in its loop the tickers keep firing, so the select keeps
\* taking the send tick, and time passes; a peer that streams keeps asking
\* until the engine has asked for the end of the file.
EngineFinishes ==
    \E f \in FriendList, fn \in FileNumbers :
        /\ fn \in DOMAIN eng
        /\ IterateFileChunkRequest(f, fn, eng[fn].size, 0, TRUE)

\* The channel with an application whose callbacks do not return at once:
\* the coordinator and a thread that calls SendFile.
NotifyInit == Start("slow", Friends) /\ probe = NoProbe

NotifyNext ==
    \/ BootTick
    \/ SendTick
    \/ IterateTick
    \/ TimePasses
    \/ \E address \in AddressList, path \in Paths, size \in Sizes, file \in FileOutcomes :
          SendFile(address, path, size, file)
    \/ \E accept \in BOOLEAN, path \in Paths, created \in BOOLEAN :
          AllowReturns(accept, path, created)
    \/ DoneReturns

NotifySpec == NotifyInit /\ [][NotifyNext]_vars

\* The sending side with one friend more and a slow application: the
\* coordinator with the engine's connection and chunk-request events, and a
\* thread that calls SendFile.
Peers == 1..(NumFriends + 1)

PeersInit == Start("slow", Peers) /\ probe = NoProbe

PeersNext ==
    \/ SendTick
    \/ \E f \in FriendList, status \in Connections : IterateConnectionStatus(f, status)
    \/ \E f \in FriendList, fn \in FileNumbers, position \in Positions, length \in Lengths,
          readOk \in BOOLEAN : IterateFileChunkRequest(f, fn, position, length, readOk)
    \/ TimePasses
    \/ \E address \in AddressList, path \in Paths, size \in Sizes, file \in FileOutcomes :
          SendFile(address, path, size, file)
    \/ DoneReturns

PeersSpec == PeersInit /\ [][PeersNext]_vars

\* The receiving side: the coordinator with the engine's connection, file
\* offer, chunk and control events, and a thread that calls
\* CancelFileTransfer, for a channel created with callbacks and for one
\* created without (Create takes nil callbacks).
RecvInit ==
    /\ \E application \in {"prompt", "none"} : Start(application, Friends)
    /\ probe = NoProbe

RecvNext ==
    \/ \E f \in FriendList, status \in Connections : IterateConnectionStatus(f, status)
    \/ \E f \in FriendList, fn \in FileNumbers, kind \in FileKinds, size \in Sizes,
          accept \in BOOLEAN, path \in Paths, created \in BOOLEAN :
          IterateFileRecv(f, fn, kind, size, accept, path, created)
    \/ \E f \in FriendList, fn \in FileNumbers, position \in Positions, length \in Lengths :
          IterateFileRecvChunk(f, fn, position, length)
    \/ \E f \in FriendList, fn \in FileNumbers, control \in FileControls :
          IterateFileControl(f, fn, control)
    \/ CancelFileTransfer

RecvSpec == RecvInit /\ [][RecvNext]_vars

\* Shutdown: the coordinator on the receiving side and a thread that calls
\* Close, and calls it again when it has returned.  The select of run()
\* takes a stop signal that waits (it chooses at random among the ready
\* cases), and the thread inside Close goes on whenever it can.
ShutdownInit == Start("prompt", Friends) /\ probe = NoProbe

ShutdownNext ==
    \/ RunStop
    \/ \E f \in FriendList, status \in Connections : IterateConnectionStatus(f, status)
    \/ \E f \in FriendList, fn \in FileNumbers, kind \in FileKinds, size \in Sizes,
          accept \in BOOLEAN, path \in Paths, created \in BOOLEAN :
          IterateFileRecv(f, fn, kind, size, accept, path, created)
    \/ \E f \in FriendList, fn \in FileNumbers, position \in Positions, length \in Lengths :
          IterateFileRecvChunk(f, fn, position, length)
    \/ Close
    \/ CloseAgain

ShutdownSpec ==
    /\ ShutdownInit
    /\ [][ShutdownNext]_vars
    /\ WF_vars(RunStop)
    /\ WF_vars(CloseKill)
    /\ WF_vars(CloseClean)

\* The admission of sends with one friend more, before any chunk is asked
\* for: the coordinator with its send tick and the engine's connection events,
\* and threads that call SendFile and CancelFileTransfer.
CancelPeersInit == Start("prompt", Peers) /\ probe = NoProbe

CancelPeersNext ==
    \/ SendTick
    \/ \E f \in FriendList, status \in Connections : IterateConnectionStatus(f, status)
    \/ TimePasses
    \/ \E address \in AddressList, path \in Paths, size \in Sizes, file \in FileOutcomes :
          SendFile(address, path, size, file)
    \/ CancelFileTransfer

CancelPeersSpec == CancelPeersInit /\ [][CancelPeersNext]_vars

\* The chunk callbacks of the coordinator, called and run in two steps, with a
\* thread that calls CancelFileTransfer.
RaceInit == Start("prompt", Friends) /\ probe = NoProbe

RaceNext ==
    \/ SendTick
    \/ \E f \in FriendList, status \in Connections : IterateConnectionStatus(f, status)
    \/ \E address \in AddressList, path \in Paths, size \in Sizes, file \in FileOutcomes :
          SendFile(address, path, size, file)
    \/ \E f \in FriendList, fn \in FileNumbers, kind \in FileKinds, size \in Sizes,
          accept \in BOOLEAN, path \in Paths, created \in BOOLEAN :
          IterateFileRecv(f, fn, kind, size, accept, path, created)
    \/ \E f \in FriendList, fn \in FileNumbers, position \in Positions, length \in Lengths :
          DispatchFileRecvChunk(f, fn, position, length)
    \/ \E f \in FriendList, fn \in FileNumbers, position \in Positions, length \in Lengths :
          DispatchFileChunkRequest(f, fn, position, length)
    \/ \E readOk \in BOOLEAN : ChunkRuns(readOk)
    \/ CancelFileTransfer

RaceSpec == RaceInit /\ [][RaceNext]_vars

\* The chunk callbacks with the outcome of the file and engine calls they
\* make.  probe.handed keeps, for every transfer, the bytes that were handed
\* over without error (written by WriteAt; read by ReadAt and taken by
\* tox.FileSendChunk); probe.reports keeps what was known when a transfer was
\* closed with StSuccess.
DeliverInit ==
    /\ Start("prompt", Friends)
    /\ probe = [on |-> "deliver", handed |-> [t \in TransferIds |-> {}], reports |-> {}]

Bytes(position, length) == {b \in 0..(MaxSize - 1) : position <= b /\ b < position + length}

\* the probe after a chunk handler has run from the current state to S, having
\* handed over the given bytes of the transfer under fileNumber
Delivered(S, fileNumber, bytes) ==
    LET handed == [t \in TransferIds |->
                     IF fileNumber \in DOMAIN transfers /\ t = transfers[fileNumber]
                     THEN probe.handed[t] \cup bytes ELSE probe.handed[t]]
        succeeded == {t \in DOMAIN tr : /\ S.tr[t].callbacks > tr[t].callbacks
                                        /\ S.tr[t].state = StSuccess}
    IN  [on |-> "deliver",
         handed |-> [t \in TransferIds |-> IF t \in DOMAIN tr' THEN handed[t] ELSE {}],
         reports |-> probe.reports \cup
                     {[out |-> tr[t].out, complete |-> handed[t] = Bytes(0, tr[t].size)] :
                         t \in succeeded}]

\* a data chunk arrives; tran.file.WriteAt succeeds or not (never on a nil file)
DeliverFileRecvChunk(f, fn, position, length, writeOk) ==
    /\ probe.on = "deliver"
    /\ Running
    /\ fn \in DOMAIN eng
    /\ eng[fn].friend = f
    /\ ~eng[fn].out
    /\ ChunkOf(fn, position, length)
    /\ length > 0
    /\ writeOk => fn \in DOMAIN transfers /\ tr[transfers[fn]].file = openFile
    /\ LET S == onFileRecvChunk(Cur, f, fn, position, length)
       IN  IF S.panic
           THEN Panic
           ELSE /\ Handle(S)
                /\ probe' = Delivered(S, fn, IF writeOk THEN Bytes(position, length) ELSE {})
                /\ UNCHANGED <<online, runPc, wg, closePc, cancel, app>>

\* a chunk is asked for; trans.file.ReadAt and tox.FileSendChunk succeed or
\* not.  The engine asks for the chunk of length 0 when it has been given
\* every byte of the file.
DeliverFileChunkRequest(f, fn, position, length, readOk, sendOk) ==
    /\ probe.on = "deliver"
    /\ Running
    /\ fn \in DOMAIN eng
    /\ eng[fn].friend = f
    /\ eng[fn].out
    /\ ChunkOf(fn, position, length)
    /\ sendOk => readOk
    /\ length = 0 => /\ fn \in DOMAIN transfers
                     /\ probe.handed[transfers[fn]] = Bytes(0, eng[fn].size)
    /\ LET S0 == IF length = 0 THEN FileControlCancel(Cur, fn) ELSE Cur
           S == onFileChunkRequest(S0, f, fn, position, length, readOk)
       IN  IF S.panic
           THEN Panic
           ELSE /\ Handle(S)
                /\ probe' = Delivered(S, fn, IF sendOk THEN Bytes(position, length) ELSE {})
                /\ UNCHANGED <<online, runPc, wg, closePc, cancel, app>>

\* the connection of a friend changes: the transfers the handler closes are
\* forgotten by the probe
DeliverConnectionStatus(f, status) ==
    /\ probe.on = "deliver"
    /\ Running
    /\ status = ConnectionNone => online[f]
    /\ online' = [online EXCEPT ![f] = (status # ConnectionNone)]
    /\ LET S0 == [Cur EXCEPT !.eng = IF status = ConnectionNone
                                     THEN EngDropFriend(eng, f) ELSE eng]
           S == onFriendConnectionStatusChanges(S0, f, status)
       IN  /\ Handle(S)
           /\ probe' = Delivered(S, 0, {})
    /\ UNCHANGED <<runPc, wg, closePc, cancel, app>>

DeliverNext ==
    \/ SendTick
    \/ \E f \in FriendList, status \in Connections : DeliverConnectionStatus(f, status)
    \/ \E address \in AddressList, path \in Paths, size \in Sizes, file \in FileOutcomes :
          SendFile(address, path, size, file)
    \/ \E f \in FriendList, fn \in FileNumbers, kind \in FileKinds, size \in Sizes,
          accept \in BOOLEAN, path \in Paths, created \in BOOLEAN :
          IterateFileRecv(f, fn, kind, size, accept, path, created)
    \/ \E f \in FriendList, fn \in FileNumbers, position \in Positions, length \in Lengths,
          writeOk \in BOOLEAN :
          DeliverFileRecvChunk(f, fn, position, length, writeOk)
    \/ \E f \in FriendList, fn \in FileNumbers, position \in Positions, length \in Lengths,
          readOk \in BOOLEAN, sendOk \in BOOLEAN :
          DeliverFileChunkRequest(f, fn, position, length, readOk, sendOk)

DeliverSpec == DeliverInit /\ [][DeliverNext]_vars

\* The chunk request on the whole (scaled) range of uint64: files of every
\* int64 size are sent, and the engine may ask for any position and length.
Words == 0..(WordMod - 1)
FileSizes == 0..MaxInt

ClampInit == Start("prompt", Friends) /\ probe = NoProbe

\* trans.file.ReadAt returns an error for a negative offset and when the file
\* ends before the buffer is full
ReadAtFails(position, length, size) == position > MaxInt \/ position + length > size

ClampChunkRequest(f, fn, position, len, readOk) ==
    /\ Running
    /\ fn \in DOMAIN eng
    /\ eng[fn].friend = f
    /\ eng[fn].out
    /\ fn \in DOMAIN transfers
    /\ readOk => ~ReadAtFails(position,
                              clampLength(position, len, tr[transfers[fn]].size),
                              tr[transfers[fn]].size)
    /\ LET S0 == IF len = 0 THEN FileControlCancel(Cur, fn) ELSE Cur
           S == onFileChunkRequest(S0, f, fn, position, len, readOk)
       IN  IF S.panic
           THEN Panic
           ELSE /\ Handle(S)
                /\ UNCHANGED <<online, runPc, wg, closePc, cancel, app, probe>>

ClampNext ==
    \/ SendTick
    \/ \E f \in FriendList, status \in Connections : IterateConnectionStatus(f, status)
    \/ \E address \in AddressList, size \in FileSizes, file \in FileOutcomes :
          SendFile(address, "p1", size, file)
    \/ \E f \in FriendList, fn \in FileNumbers, position \in Words, len \in Words,
          readOk \in BOOLEAN :
          ClampChunkRequest(f, fn, position, len, readOk)

ClampSpec == ClampInit /\ [][ClampNext]_vars

\* The sending side with one friend more, one file, and threads that call
\* SendFile and CancelFileTransfer; the friends come online and stay, and the
\* reads of the file succeed.
StreamPeersInit == Start("prompt", Peers) /\ probe = NoProbe

StreamPeersNext ==
    \/ SendTick
    \/ \E f \in FriendList : IterateConnectionStatus(f, ConnectionUDP)
    \/ \E f \in FriendList, fn \in FileNumbers, position \in Positions, length \in Lengths :
          IterateFileChunkRequest(f, fn, position, length, TRUE)
    \/ TimePasses
    \/ \E address \in AddressList, size \in Sizes : SendFile(address, "p1", size, FileOk)
    \/ CancelFileTransfer

StreamPeersSpec == StreamPeersInit /\ [][StreamPeersNext]_vars

\* The channel with time counted in periods of the send ticker, and a slow
\* application.  The ticker holds at most one tick (time.Tick); the loop
\* takes a tick that is due before the next period ends, unless it is held
\* inside a callback, and then the ticks of the periods that pass are lost.
\* The clock is kept in the variable probe: due (a tick waits in the ticker)
\* and missed (a period has ended with the tick still waiting).
TickPeriod == 1
MaxAge == sendTimeout + TickPeriod + 1

TimedInit ==
    /\ Start("slow", Friends)
    /\ probe = [on |-> "clock", due |-> FALSE, missed |-> FALSE]

TimedPasses ==
    /\ Alive
    /\ probe.on = "clock"
    /\ probe.due => ~Running
    /\ sendActive' = [a \in DOMAIN sendActive |->
                        IF ~sendActive[a].started /\ sendActive[a].age < MaxAge
                        THEN [sendActive[a] EXCEPT !.age = @ + TickPeriod]
                        ELSE sendActive[a]]
    /\ probe' = [probe EXCEPT !.due = TRUE, !.missed = @ \/ probe.due]
    /\ UNCHANGED <<tr, online, eng, transfers, sending, runPc, wg, closePc, cancel, app, tasks, calling>>

\* case <-sendTicker, taking the tick that is due
TimedSendTick ==
    /\ Running
    /\ probe.on = "clock"
    /\ probe.due
    /\ \E S \in sendCycle(Cur, DOMAIN sending) : Handle(S)
    /\ probe' = [probe EXCEPT !.due = FALSE, !.missed = FALSE]
    /\ UNCHANGED <<online, runPc, wg, closePc, cancel, app>>

TimedNext ==
    \/ TimedSendTick
    \/ TimedPasses
    \/ IterateTick
    \/ \E address \in AddressList, path \in Paths, size \in Sizes, file \in FileOutcomes :
          SendFile(address, path, size, file)
    \/ \E accept \in BOOLEAN, path \in Paths, created \in BOOLEAN :
          AllowReturns(accept, path, created)
    \/ DoneReturns

TimedSpec == TimedInit /\ [][TimedNext]_vars

\* ------------------------------------------ callers of transfer.go, queue.go
\* A caller that holds a transfer, a queue or a queue collection of its own
\* (as the tests of queue_test.go do) and calls their methods; the channel
\* takes no step.
chanVars == <<online, eng, transfers, sending, sendActive, tr, runPc, wg, closePc, cancel,
              app, tasks, calling>>

MaxProbe == 24
ProbeValues == 0..MaxProbe
ProgressValues == ProbeValues \cup {MaxUint64}

\* a transfer of any size, and calls of SetProgress with values that do not
\* decrease, each followed by a call of Percentage
PercentInit ==
    /\ Start("prompt", {})
    /\ \E size \in ProbeValues :
          probe = [on |-> "transfer", t |-> createTransfer("p1", 1, openFile, TRUE, size),
                   before |-> 0, now |-> 0]

ProbeSetProgress(value) ==
    /\ probe.on = "transfer"
    /\ ULeq(probe.t.progress, value)
    /\ \E percentage \in Percentage(SetProgress(probe.t, value)) :
          probe' = [probe EXCEPT !.t = SetProgress(@, value),
                                 !.before = probe.now,
                                 !.now = percentage]
    /\ UNCHANGED chanVars

PercentNext == \E value \in ProgressValues : ProbeSetProgress(value)

PercentSpec == PercentInit /\ [][PercentNext]_vars

\* a transfer of any size, and calls of SetProgress with any value of the
\* range, each followed by a call of Percentage
MaxFloor == 100
FloorValues == 0..MaxFloor

FloorInit ==
    /\ Start("prompt", {})
    /\ \E size \in FloorValues :
          probe = [on |-> "percentage", t |-> createTransfer("p1", 1, openFile, TRUE, size),
                   now |-> 0]

ProbePercentage(value) ==
    /\ probe.on = "percentage"
    /\ \E percentage \in Percentage(SetProgress(probe.t, value)) :
          probe' = [probe EXCEPT !.t = SetProgress(@, value), !.now = percentage]
    /\ UNCHANGED chanVars

FloorNext == \E value \in FloorValues : ProbePercentage(value)

FloorSpec == FloorInit /\ [][FloorNext]_vars

\* a transfer, and calls of Close with any state, the file system reporting
\* an error or none for file.Sync and for file.Close; the caller keeps the
\* state and the errors of its first call
CloseStates == {StSuccess, StFailed, StCanceled, StTimeout}

CloseInit ==
    /\ Start("prompt", {})
    /\ \E path \in Paths, file \in {openFile, nilFile}, out \in BOOLEAN, size \in Positions :
          probe = [on |-> "close", t |-> createTransfer(path, 1, file, out, size),
                   first |-> [state |-> StNone, syncErr |-> FALSE, closeErr |-> FALSE]]

ProbeClose(state, syncIO, closeIO) ==
    /\ probe.on = "close"
    /\ probe' = IF probe.t.isDone
                THEN [probe EXCEPT !.t = Observe(@, state)]
                ELSE [probe EXCEPT
                        !.t = closeBodyIO(Observe(@, state), state,
                                          fileErr(@, syncIO), fileErr(@, closeIO)),
                        !.first = [state |-> state,
                                   syncErr |-> fileErr(probe.t, syncIO),
                                   closeErr |-> fileErr(probe.t, closeIO)]]
    /\ UNCHANGED chanVars

CloseNext ==
    \E state \in CloseStates, syncIO \in BOOLEAN, closeIO \in BOOLEAN :
        ProbeClose(state, syncIO, closeIO)

CloseSpec == CloseInit /\ [][CloseNext]_vars

\* a queue, and calls of add and get (TestQueue); the caller keeps what it
\* has added and what it has got, in order
MaxAdds == 4
Min2(n) == IF n < 2 THEN n + 1 ELSE 2

QueueInit ==
    /\ Start("prompt", {})
    /\ probe = [on |-> "queue", q |-> <<>>, added |-> <<>>, got |-> <<>>,
                last |-> [t |-> nilTransfer, length |-> 0], nils |-> 0]

ProbeQueueAdd(t) ==
    /\ probe.on = "queue"
    /\ Len(probe.added) < MaxAdds
    /\ probe' = [probe EXCEPT !.q = queueAdd(@, t), !.added = Append(@, t)]
    /\ UNCHANGED chanVars

ProbeQueueGet ==
    /\ probe.on = "queue"
    /\ LET r == queueGet(probe.q)
       IN  probe' = [probe EXCEPT !.q = r.q,
                                  !.got = IF r.t = nilTransfer THEN @ ELSE Append(@, r.t),
                                  !.last = [t |-> r.t, length |-> queueLength(probe.q)],
                                  !.nils = IF r.t = nilTransfer THEN Min2(@) ELSE @]
    /\ UNCHANGED chanVars

QueueNext ==
    \/ \E t \in TransferIds : ProbeQueueAdd(t)
    \/ ProbeQueueGet

QueueSpec == QueueInit /\ [][QueueNext]_vars

\* a queue collection, and calls of add (nil too) and get on its addresses
\* (TestQueues); the caller keeps, for every address, the transfers it has
\* added and those it has got
QueueAddresses == {"one", "two", "three"}
NoQueue == [a \in QueueAddresses |-> <<>>]

QueuesInit ==
    /\ Start("prompt", {})
    /\ probe = [on |-> "queues", qs |-> EmptyMap, added |-> NoQueue, got |-> NoQueue,
                last |-> [t |-> nilTransfer, length |-> 0], nilAdds |-> 0]

Added(p) == Len(p.added["one"]) + Len(p.added["two"]) + Len(p.added["three"])

ProbeQueuesAdd(address, t) ==
    /\ probe.on = "queues"
    /\ Added(probe) < MaxAdds
    /\ probe' = [probe EXCEPT !.qs = queuesAdd(@, address, t),
                              !.added[address] = IF t = nilTransfer THEN @ ELSE Append(@, t),
                              !.nilAdds = IF t = nilTransfer THEN Min2(@) ELSE @]
    /\ UNCHANGED chanVars

ProbeQueuesGet(address) ==
    /\ probe.on = "queues"
    /\ LET r == queuesGet(probe.qs, address)
       IN  probe' = [probe EXCEPT
                        !.qs = r.qs,
                        !.got[address] = IF r.t = nilTransfer THEN @ ELSE Append(@, r.t),
                        !.last = [t |-> r.t,
                                  length |-> IF address \in DOMAIN probe.qs
                                             THEN queueLength(probe.qs[address]) ELSE 0]]
    /\ UNCHANGED chanVars

QueuesNext ==
    \/ \E address \in QueueAddresses, t \in TransferIds \cup {nilTransfer} :
          ProbeQueuesAdd(address, t)
    \/ \E address \in QueueAddresses : ProbeQueuesGet(address)

QueuesSpec == QueuesInit /\ [][QueuesNext]_vars

\* The sending side of the running loop under the fairness of its tickers:
\* the send tick, time, the connection and chunk-request callbacks, SendFile
\* and CancelFileTransfer.
FairNext ==
    \/ SendTick
    \/ TimePasses
    \/ \E f \in FriendList, status \in Connections : IterateConnectionStatus(f, status)
    \/ \E f \in FriendList, fn \in FileNumbers, position \in Positions, length \in Lengths,
          readOk \in BOOLEAN :
          IterateFileChunkRequest(f, fn, position, length, readOk)
    \/ \E address \in AddressList, path \in Paths, size \in Sizes, file \in FileOutcomes :
          SendFile(address, path, size, file)
    \/ CancelFileTransfer

FairSpec ==
    /\ Init
    /\ [][FairNext]_vars
    /\ WF_vars(SendTick)
    /\ WF_vars(TimePasses)
    /\ WF_vars(EngineFinishes)

\* ================================================================== claims
\* the outbound transfers to a friend that the registry holds and that are
\* not terminal, in a channel state S
ActiveOut(S, f) ==
    {fn \in DOMAIN S.transfers :
        /\ S.tr[S.transfers[fn]].out
        /\ S.tr[S.transfers[fn]].friend = f
        /\ ~S.tr[S.transfers[fn]].isDone}

\* C1: in every reachable state, for every peer, at most one outbound
\* transfer to that peer is admitted or active (in the registry and not
\* terminal).
C1_OneActivePerPeer ==
    \A f \in Friends : Cardinality(ActiveOut(Cur, f)) <= 1

\* the transfers a step registers: those the registry holds after the step
\* and did not hold before it
Registered == {transfers[fn] : fn \in DOMAIN transfers}
RegisteredNext == {transfers'[fn] : fn \in DOMAIN transfers'}

\* C2: the sends queued for a peer are admitted in their order, each one only
\* after the transfer admitted before it for that peer has reached a terminal
\* state: a step that admits an outbound transfer for a peer leaves no other
\* non-terminal outbound transfer of that peer in the registry.
C2_AdmitAfterTerminal ==
    [][\A t \in RegisteredNext \ Registered :
          tr'[t].out =>
             \A fn \in DOMAIN transfers' :
                LET u == transfers'[fn]
                IN  (u # t /\ tr'[u].out /\ tr'[u].friend = tr'[t].friend) => tr'[u].isDone]_vars

\* C3: for every transfer, whatever Close calls were made on it (completion,
\* local cancel, remote cancel, disconnect, timeout, Close of the channel):
\* the terminal flag is set by one of them only, which closes the file once
\* and runs the completion callback once, with the state of the first Close
\* call; every other Close call does nothing.
C3_CloseOnce ==
    \A t \in DOMAIN tr :
        /\ tr[t].callbacks <= 1
        /\ tr[t].fileCloses <= 1
        /\ tr[t].isDone => /\ tr[t].callbacks = 1
                            /\ tr[t].fileCloses = 1
                            /\ tr[t].state = tr[t].firstState
        /\ ~tr[t].isDone => (tr[t].callbacks = 0 /\ tr[t].fileCloses = 0)

\* the admission of address a is older than the timeout, has not started,
\* and its transfer is still the registered, non-terminal send to a
StaleAdmission(a) ==
    /\ a \in DOMAIN sendActive
    /\ sendActive[a].age > sendTimeout
    /\ ~sendActive[a].started
    /\ sendActive[a].fileNumber \in DOMAIN transfers
    /\ LET t == tr[transfers[sendActive[a].fileNumber]]
       IN  t.out /\ addressOf(t.friend) = a /\ ~t.isDone

\* C4: an admission tick that finds the admitted send of a peer older than
\* the timeout and not started closes the transfer with state Timeout, removes
\* it from the registry and clears the admission, leaving the queue as it is;
\* an admission tick that finds no admission for a peer with a non-empty queue
\* (the following cycle) takes the head of the queue and admits it, that is,
\* starts it with tox.FileSend: it is registered under the number FileSend
\* returns with a fresh admission, or closed Failed when FileSend fails.
C4_TimeoutThenNext ==
    \A a \in DOMAIN sending : \A S2 \in sendCycle(Cur, DOMAIN sending) :
        /\ StaleAdmission(a) =>
              LET fn == sendActive[a].fileNumber
                  t == transfers[fn]
              IN  /\ S2.tr[t].isDone
                  /\ S2.tr[t].state = StTimeout
                  /\ S2.tr[t].callbacks = 1
                  /\ fn \notin DOMAIN S2.transfers
                  /\ a \notin DOMAIN S2.sendActive
                  /\ S2.sending[a] = sending[a]
        /\ (a \notin DOMAIN sendActive /\ sending[a] # <<>>) =>
              LET h == sending[a][1]
              IN  /\ S2.sending[a] = Tail(sending[a])
                  /\ \/ /\ a \in DOMAIN S2.sendActive
                        /\ S2.sendActive[a] = buildSendTransfer(S2.sendActive[a].fileNumber)
                        /\ S2.sendActive[a].fileNumber \in DOMAIN S2.transfers
                        /\ S2.transfers[S2.sendActive[a].fileNumber] = h
                        /\ ~S2.tr[h].isDone
                     \/ /\ a \notin DOMAIN S2.sendActive
                        /\ S2.tr[h].isDone
                        /\ S2.tr[h].state = StFailed
                        /\ \A fn \in DOMAIN S2.transfers : S2.transfers[fn] # h

\* the timeout has closed a transfer (which a CancelFileTransfer that found
\* it before still refers to), and the next send of the peer waits in the queue
C4_Witness ==
    /\ cancel.pc = "found"
    /\ tr[cancel.transfer].state = StTimeout
    /\ tr[cancel.transfer].out
    /\ addressOf(tr[cancel.transfer].friend) \notin DOMAIN sendActive
    /\ sending[addressOf(tr[cancel.transfer].friend)] # <<>>

\* C5: while admission ticks keep occurring, every admission is eventually
\* cleared (so the head of a non-empty queue is eventually taken), also after
\* a local CancelFileTransfer of a send that has started streaming.
C5_NoStarvation ==
    \A a \in Addresses :
        (a \in DOMAIN sendActive) ~> (a \notin DOMAIN sendActive \/ runPc = "stopped")

\* C6: the step of the handler that reports a peer's change away from online
\* closes every transfer of that peer in the registry (Failed, unless it was
\* terminal already) and removes it, clears the peer's admission, and leaves
\* every queue, and every transfer of another peer, unchanged.
C6_Disconnect ==
    [][\A f \in Friends :
          (online[f] /\ ~online'[f] /\ runPc = "running") =>
             LET S2 == onFriendConnectionStatusChanges(Cur, f, ConnectionNone)
                 mine == {fn \in DOMAIN transfers : tr[transfers[fn]].friend = f}
             IN  /\ \A fn \in mine :
                       LET t == transfers[fn]
                       IN  /\ fn \notin DOMAIN transfers'
                           /\ S2.tr[t].isDone
                           /\ ~tr[t].isDone => /\ S2.tr[t].state = StFailed
                                                /\ S2.tr[t].callbacks = 1
                                                /\ S2.tr[t].fileCloses = 1
                           /\ t \in DOMAIN tr' => tr'[t] = S2.tr[t]
                 /\ \A fn \in (DOMAIN transfers) \ mine :
                       /\ fn \in DOMAIN transfers'
                       /\ transfers'[fn] = transfers[fn]
                       /\ tr'[transfers[fn]] = tr[transfers[fn]]
                 /\ addressOf(f) \notin DOMAIN sendActive'
                 /\ sending' = sending
                 /\ \A a \in DOMAIN sending :
                       \A i \in 1..Len(sending[a]) : tr'[sending[a][i]] = tr[sending[a][i]]]_vars

\* a peer is offline, its admitted send was closed Failed (a CancelFileTransfer
\* that found it before still refers to it), its admission is gone and its
\* queue still holds a transfer
C6_Witness ==
    /\ cancel.pc = "found"
    /\ tr[cancel.transfer].state = StFailed
    /\ tr[cancel.transfer].out
    /\ ~online[tr[cancel.transfer].friend]
    /\ \A fn \in DOMAIN transfers : transfers[fn] # cancel.transfer
    /\ addressOf(tr[cancel.transfer].friend) \notin DOMAIN sendActive
    /\ sending[addressOf(tr[cancel.transfer].friend)] # <<>>

\* C7: while a peer is offline, no step (no admission cycle) takes a transfer
\* from that peer's queue: the queue stays as it is until the peer is back.
C7_OfflineQueueIntact ==
    [][\A a \in DOMAIN sending :
          (~online[friendNumberOf(a)] /\ ~online'[friendNumberOf(a)]) =>
             sending'[a] = sending[a]]_vars

\* C8: once Close has sent the stop signal and waits for run() to take it, the
\* loop takes no further iterate tick or send tick before it takes the stop.
C8_StopFirst ==
    [][closePc = "stop" => ~(SendTick \/ IterateTick)]_vars

\* C9: Close keeps the order stop signal, loop exit, wait, engine release,
\* close of the remaining transfers: when Close is past its wait the loop has
\* ended (so no handler reads or writes a file any more: the progress and the
\* I/O record of every transfer stay as they are), and when Close returns
\* every transfer of the registry is terminal with state Canceled, its
\* completion callback having run exactly once.
C9_CloseOrder ==
    [][/\ closePc' \in {"clean", "done"} => (runPc' = "stopped" /\ wg' = 0)
       /\ closePc' = "done" =>
             \A fn \in DOMAIN transfers' :
                LET t == tr'[transfers'[fn]]
                IN  t.isDone /\ t.state = StCanceled /\ t.callbacks = 1 /\ t.fileCloses = 1
       /\ closePc \in {"clean", "done"} =>
             \A t \in (DOMAIN tr) \cap (DOMAIN tr') :
                /\ tr'[t].progress = tr[t].progress
                /\ tr'[t].ioAfterClose = tr[t].ioAfterClose]_vars

\* C10: the registry, the queues and the admission tracker are written by the
\* coordinator only: a step of CancelFileTransfer on the caller's thread
\* leaves them as they are.
C10_CoordinatorOnly ==
    [][CancelFileTransfer => UNCHANGED <<transfers, sending, sendActive>>]_vars

\* C11: the notifications OnFriendRequest, OnMessage, OnConnected,
\* OnFileCanceled and OnFileReceived run as tasks of their own, so that the
\* coordinator loop goes on while one of them never returns, and OnAllowFile
\* is the only callback during which the coordinator loop makes no progress:
\* whenever the running loop is held inside a callback of the application,
\* that callback is OnAllowFile.
C11_OnlyAllowFileBlocks ==
    (runPc = "running" /\ ~Running) => calling.cb = "OnAllowFile"

\* C12: registry invariant: an entry is removed exactly when its transfer
\* reaches a terminal state: in every reachable state, also after Close, no
\* transfer of the registry is terminal, and every transfer that has a file
\* number of the engine (it has left the queue) and is not terminal is in the
\* registry.
C12_Registry ==
    /\ \A fn \in DOMAIN transfers : ~tr[transfers[fn]].isDone
    /\ \A t \in DOMAIN tr :
          (~tr[t].isDone /\ t \notin Queued) => \E fn \in DOMAIN transfers : transfers[fn] = t

\* C13 as stated: a peer's admission is removed the instant streaming begins:
\* no reachable state holds an admission with started = true.
C13_NoStartedAdmission ==
    \A a \in DOMAIN sendActive : ~sendActive[a].started

\* C13: the admission of a peer is kept while its send is streaming: the
\* handling of a chunk request for a tracked file of a peer that has an
\* admission sets started = true on it and leaves it otherwise as it is, and
\* removes it exactly when the request is the final one (length 0 after
\* clamping to the size), which closes the transfer.
C13_StartedKept ==
    \A f \in Friends, fn \in FileNumbers, position \in Positions,
       length \in Lengths, readOk \in BOOLEAN :
        ( /\ Running
          /\ fn \in DOMAIN eng
          /\ eng[fn].friend = f
          /\ eng[fn].out
          /\ ChunkOf(fn, position, length)
          /\ fn \in DOMAIN transfers
          /\ addressOf(f) \in DOMAIN sendActive )
        => LET a == addressOf(f)
               S0 == IF length = 0 THEN FileControlCancel(Cur, fn) ELSE Cur
               S2 == onFileChunkRequest(S0, f, fn, position, length, readOk)
           IN  IF clampLength(position, length, tr[transfers[fn]].size) = 0
               THEN a \notin DOMAIN S2.sendActive
               ELSE /\ a \in DOMAIN S2.sendActive
                    /\ S2.sendActive[a] = [sendActive[a] EXCEPT !.started = TRUE]

\* a send is streaming (a chunk has been read, the transfer is registered and
\* not terminal) and the peer's admission, now started, is still there
C13_Witness ==
    \E a \in DOMAIN sendActive :
        /\ sendActive[a].started
        /\ sendActive[a].fileNumber \in DOMAIN transfers
        /\ LET t == tr[transfers[sendActive[a].fileNumber]]
           IN  t.out /\ ~t.isDone /\ t.progress > 0 /\ addressOf(t.friend) = a

\* C14: an admission is removed in the step in which its transfer is ended by
\* timeout, by cancel (CancelFileTransfer or the peer's cancel signal) or by
\* disconnect: in every reachable state, whenever an admission exists for a
\* peer, its file number is a key of the registry and maps to a non-terminal
\* outbound transfer of that peer.
C14_AdmissionTracksTransfer ==
    \A a \in DOMAIN sendActive :
        /\ sendActive[a].fileNumber \in DOMAIN transfers
        /\ LET t == tr[transfers[sendActive[a].fileNumber]]
           IN  t.out /\ ~t.isDone /\ addressOf(t.friend) = a

\* C15: when tox.FileSend fails for the transfer taken from a peer's queue,
\* only that transfer is affected: every such outcome of the peer's step of
\* the send tick has closed it with state Failed (callback and file close
\* once), has not entered it into the registry, has recorded no admission,
\* and has left the rest of the peer's queue, the other queues, the other
\* transfers, the registry, the admissions and the engine as they were.
C15_InitiationFailure ==
    \A a \in DOMAIN sending :
        (a \notin DOMAIN sendActive /\ sending[a] # <<>>) =>
            LET h == sending[a][1]
            IN  \A S2 \in sendStep(Cur, a) :
                    (\A fn \in DOMAIN S2.transfers : S2.transfers[fn] # h) =>
                        /\ S2.tr[h].isDone
                        /\ S2.tr[h].state = StFailed
                        /\ S2.tr[h].callbacks = 1
                        /\ S2.tr[h].fileCloses = 1
                        /\ S2.transfers = transfers
                        /\ S2.sendActive = sendActive
                        /\ S2.sending[a] = Tail(sending[a])
                        /\ \A b \in (DOMAIN sending) \ {a} : S2.sending[b] = sending[b]
                        /\ \A t \in (DOMAIN tr) \ {h} : S2.tr[t] = tr[t]
                        /\ S2.eng = eng

\* the send tick has closed a transfer of an online peer with Failed (the
\* coordinator is inside its completion callback): the engine has no file
\* for that peer, so it is FileSend that failed; the transfer is not in the
\* registry, the peer has no admission, and another peer's admitted send is
\* registered and not terminal
C15_Witness ==
    /\ calling.cb = "doneCallback"
    /\ LET t == tr[calling.transfer]
           a == addressOf(t.friend)
       IN  /\ t.out /\ t.isDone /\ t.state = StFailed /\ t.callbacks = 1
           /\ online[t.friend]
           /\ \A fn \in DOMAIN eng : eng[fn].friend # t.friend
           /\ \A fn \in DOMAIN transfers : transfers[fn] # calling.transfer
           /\ a \notin DOMAIN sendActive
           /\ \E b \in DOMAIN sendActive :
                 /\ b # a
                 /\ sendActive[b].fileNumber \in DOMAIN transfers
                 /\ ~tr[transfers[sendActive[b].fileNumber]].isDone

\* an address that is no friend's
illegalAddress == addressOf(0)

\* C16: SendFile to a peer that is not online returns errOffline and has no
\* effect: no transfer is created, no file is opened, and queues, registry
\* and admissions are as before; and every error return of SendFile leaves
\* queues, registry, admissions and transfers as they were, with every file
\* it has opened closed again.
C16_SendFileError ==
    \A address \in AddressList \cup {illegalAddress}, path \in Paths, size \in Sizes,
       file \in FileOutcomes :
        LET r == sendFile(Cur, address, path, size, file)
            offline == address = illegalAddress \/ ~online[friendNumberOf(address)]
        IN  (offline \/ file # FileOk \/ DOMAIN tr # TransferIds) =>
                /\ offline => (r.ret = errOffline /\ r.opens = 0)
                /\ r.ret # nil => (r.S = Cur /\ r.opens = r.closes)
                /\ r.ret = nil <=> (~offline /\ file = FileOk)

\* SendFile is called for a peer that is offline and has a send queued,
\* while another peer has an admitted send in the registry, and for a peer
\* that is online with a file whose Stat fails: both calls return an error
C16_Witness ==
    \E a \in AddressList, b \in AddressList :
        /\ ~online[friendNumberOf(a)]
        /\ a \in DOMAIN sending
        /\ sending[a] # <<>>
        /\ b \in DOMAIN sendActive
        /\ sendActive[b].fileNumber \in DOMAIN transfers
        /\ \A path \in Paths, size \in Sizes :
              /\ sendFile(Cur, a, path, size, FileOk).ret = errOffline
              /\ sendFile(Cur, b, path, size, StatFails).ret = errStat

\* C17: CancelFileTransfer(path) for a path that matches no transfer of the
\* registry returns errTransferNotFound and changes nothing (no callback);
\* for a path that matches, the transfer is closed with state Canceled and
\* removed from the registry and the call returns nil: the call's Close
\* leaves the transfer it found terminal with state Canceled and one
\* callback, and its delete removes from the registry that transfer only.
C17_Cancel ==
    [][/\ \A path \in Paths :
             (CancelFind(path) /\ cancelFound(Cur, path) = {}) =>
                 (cancel' = CancelIdle /\ UNCHANGED <<tr, transfers, sending, sendActive>>)
       /\ (cancel.pc \in {"found", "closing"} /\ cancel'.pc = "closed") =>
             LET S2 == IF cancel.pc = "found"
                       THEN cancelControl(Cur, cancel.fileNumber, cancel.transfer)
                       ELSE cancelClose(Cur, cancel.transfer)
             IN  /\ S2.tr[cancel.transfer].isDone
                 /\ S2.tr[cancel.transfer].state = StCanceled
                 /\ S2.tr[cancel.transfer].callbacks = 1
       /\ (cancel.pc = "closed" /\ cancel'.pc = "idle") =>
             /\ cancel.fileNumber \notin DOMAIN transfers'
             /\ \A fn \in (DOMAIN transfers) \ (DOMAIN transfers') :
                   /\ tr[transfers[fn]].isDone
                   /\ tr[transfers[fn]].state = StCanceled]_vars

\* C18: under calls of SetProgress with non-decreasing values the values of
\* Percentage do not decrease, and Percentage is 0 whenever the size is 0,
\* whatever the progress.
C18_PercentageMonotone ==
    probe.on = "transfer" =>
        /\ probe.before <= probe.now
        /\ probe.t.size = 0 => probe.now = 0

\* C19: a queue is a FIFO sequence: after the adds its length is the number
\* of transfers added and not yet got, the gets return the added transfers
\* in the order of their insertion, a get on the empty queue returns nil
\* (and only such a get does) and leaves the queue empty, and the queue
\* always holds the transfers added and not yet got, in order, so that an
\* add after the queue was emptied works as on a fresh queue.
C19_QueueFIFO ==
    probe.on = "queue" =>
        /\ queueLength(probe.q) = Len(probe.added) - Len(probe.got)
        /\ probe.got = SubSeq(probe.added, 1, Len(probe.got))
        /\ probe.q = SubSeq(probe.added, Len(probe.got) + 1, Len(probe.added))
        /\ probe.last.t = nilTransfer <=> probe.last.length = 0
        /\ queueGet(<<>>) = [t |-> nilTransfer, q |-> <<>>]

\* MaxAdds transfers, not all the same, were added, all of them were got,
\* and gets beyond that returned nil
C19_Witness ==
    /\ probe.on = "queue"
    /\ Len(probe.added) = MaxAdds
    /\ probe.got = probe.added
    /\ probe.added[1] # probe.added[2]
    /\ probe.nils = 2
    /\ probe.last.t = nilTransfer

\* C20: for the queue collection: add(address, nil) changes nothing; add and
\* get on one address never change the queue of another address; get on an
\* address that never had an add returns nil; and for each address the
\* non-nil gets are as many as the non-nil adds, after which get returns
\* nil: every address's queue exists exactly when a non-nil transfer was
\* added for it and holds its own adds not yet got, in order, and a get
\* returns nil exactly when nothing is there.
C20_Queues ==
    probe.on = "queues" =>
        /\ DOMAIN probe.qs = {a \in QueueAddresses : probe.added[a] # <<>>}
        /\ \A a \in QueueAddresses :
              /\ Len(probe.got[a]) <= Len(probe.added[a])
              /\ probe.got[a] = SubSeq(probe.added[a], 1, Len(probe.got[a]))
              /\ a \in DOMAIN probe.qs =>
                    probe.qs[a] = SubSeq(probe.added[a], Len(probe.got[a]) + 1,
                                         Len(probe.added[a]))
              /\ queuesGet(probe.qs, a).t = nilTransfer <=>
                    Len(probe.got[a]) = Len(probe.added[a])
        /\ probe.last.t = nilTransfer <=> probe.last.length = 0

\* two addresses had adds, nil was added too, every transfer added was got,
\* and the last get returned nil; the third address never had an add
C20_Witness ==
    /\ probe.on = "queues"
    /\ Len(probe.added["one"]) = 2
    /\ probe.added["two"] # <<>>
    /\ probe.added["three"] = <<>>
    /\ probe.got = probe.added
    /\ probe.nilAdds = 2
    /\ probe.last.t = nilTransfer

\* C22: no transfer with a nil file handle is ever in a queue or in the
\* registry, also not when the file of an accepted inbound transfer cannot be
\* created at the path OnAllowFile returned.
C22_ValidFileHandle ==
    \A t \in Queued \cup Registered : tr[t].file # nilFile

\* C21: no error ends the coordinator loop: a bootstrap tick, whatever its
\* bootstraps return, and an iterate tick whose tox.Iterate returns an error
\* leave the loop running and the registry, the queues and the admissions as
\* they are, and the only step that ends the running loop is the reception of
\* the stop signal.
C21_LoopEndsOnStop ==
    [][/\ (BootTick \/ IterateError) =>
             (runPc' = "running" /\ UNCHANGED <<transfers, sending, sendActive>>)
       /\ (runPc = "running" /\ runPc' # "running") => RunStop]_vars

\* C23: one admission cycle (the send tick) takes, for every peer that has a
\* non-empty queue and no admission, exactly the oldest transfer from the
\* queue, and leaves the queue of every other peer (one with an admission, or
\* with an empty queue) as it is; the visit of such a peer starts the send of
\* the transfer it took with tox.FileSend and, when FileSend succeeds, stores
\* the transfer in the registry under the number FileSend returned and
\* records for the peer an admission with that number, age 0 and
\* started = false (when FileSend fails, registry and admissions stay as they
\* are and the transfer is closed with Failed).
C23_AdmissionCycle ==
    /\ \A S2 \in sendCycle(Cur, DOMAIN sending) : \A a \in DOMAIN sending :
          S2.sending[a] = IF a \notin DOMAIN sendActive /\ sending[a] # <<>>
                          THEN Tail(sending[a]) ELSE sending[a]
    /\ \A v \in sendVisits(Cur, DOMAIN sending) :
          LET S == v[1]
              a == v[2]
              S2 == v[3]
          IN  (a \notin DOMAIN S.sendActive /\ S.sending[a] # <<>>) =>
                 LET h == S.sending[a][1]
                 IN  \/ \E fn \in FileSend(S, S.tr[h].friend) \ {FileSendErr} :
                           /\ S2.sendActive =
                                 MapPut(S.sendActive, a,
                                        [started |-> FALSE, age |-> 0, fileNumber |-> fn])
                           /\ S2.transfers = MapPut(S.transfers, fn, h)
                           /\ S2.tr = S.tr
                           /\ ~S2.tr[h].isDone
                     \/ /\ S2.sendActive = S.sendActive
                        /\ S2.transfers = S.transfers
                        /\ S2.tr[h].isDone
                        /\ S2.tr[h].state = StFailed

\* two peers have each an admitted send: an admission that is fresh and not
\* started, with a number of its own under which the registry holds the
\* peer's transfer, not terminal; and both queues are empty
C23_Witness ==
    \E a \in DOMAIN sendActive, b \in DOMAIN sendActive :
        /\ a # b
        /\ sendActive[a].fileNumber # sendActive[b].fileNumber
        /\ sending[a] = <<>> /\ sending[b] = <<>>
        /\ \A c \in {a, b} :
              /\ sendActive[c] = [started |-> FALSE, age |-> 0,
                                  fileNumber |-> sendActive[c].fileNumber]
              /\ sendActive[c].fileNumber \in DOMAIN transfers
              /\ LET t == tr[transfers[sendActive[c].fileNumber]]
                 IN  t.out /\ ~t.isDone /\ addressOf(t.friend) = c

\* C24: an admission is stale only when it is older than the timeout and has
\* not started: no outcome of a send tick closes with state Timeout a
\* transfer for which a chunk request has been handled while its admission
\* existed, and no outcome removes an admission that is not older than the
\* timeout or closes the transfer registered under its number with Timeout.
C24_StaleOnly ==
    \A S2 \in sendCycle(Cur, DOMAIN sending) :
        /\ \A t \in DOMAIN tr :
              (tr[t].chunked /\ ~tr[t].isDone) => S2.tr[t].state # StTimeout
        /\ \A a \in DOMAIN sendActive :
              sendActive[a].age <= sendTimeout =>
                 /\ a \in DOMAIN S2.sendActive
                 /\ S2.sendActive[a] = sendActive[a]
                 /\ sendActive[a].fileNumber \in DOMAIN transfers =>
                       LET t == transfers[sendActive[a].fileNumber]
                       IN  ~tr[t].isDone => S2.tr[t].state # StTimeout

C26_PercentageFloor ==
    probe.on = "percentage" =>
        probe.now = IF probe.t.size = 0
                    THEN 0
                    ELSE (100 * probe.t.progress) \div probe.t.size

\* C27: the first Close of a transfer makes it terminal and runs the
\* completion callback, once, with the state given, whatever file.Sync and
\* file.Close report: after the first call, and after any further call, the
\* transfer is terminal, its file was closed once and its callback has run
\* once with the state of the first call.
C27_CloseDespiteIOError ==
    (probe.on = "close" /\ probe.t.closeCalls > 0) =>
        /\ probe.t.isDone
        /\ probe.t.callbacks = 1
        /\ probe.t.fileCloses = 1
        /\ probe.t.state = probe.first.state
        /\ probe.t.firstState = probe.first.state

\* a transfer with an open file was closed with Success while both file.Sync
\* and file.Close reported an error, and Close was called again afterwards
C27_Witness ==
    /\ probe.on = "close"
    /\ probe.t.file = openFile
    /\ probe.first = [state |-> StSuccess, syncErr |-> TRUE, closeErr |-> TRUE]
    /\ probe.t.closeCalls = 2
    /\ probe.t.callbacks = 1
    /\ probe.t.state = StSuccess

\* the transfer objects waiting in a queue after the step
QueuedNext == UNION {{sending'[a][i] : i \in 1..Len(sending'[a])} : a \in DOMAIN sending'}

\* the phase of a transfer t, given its record and whether it is queued:
\* Pending (0), Admitted (1), Active (2), Terminal (3)
Phase(t, queued) ==
    IF t.isDone THEN 3
    ELSE IF queued THEN 0
    ELSE IF t.progress = 0 /\ ~t.chunked THEN 1
    ELSE 2

\* C28: no step moves a transfer back in the order Pending (queued),
\* Admitted (registered, no chunk yet), Active (chunks flowing), Terminal, and
\* Terminal is absorbing: a step leaves the state and the progress of a
\* terminal transfer as they are, and neither queues it nor enters it into
\* the registry; in particular the Close of CancelFileTransfer, which ends
\* the caller's reference to the transfer, leaves the state of a transfer
\* that is terminal as it is.
C28_ForwardOnly ==
    [][/\ \A t \in (DOMAIN tr) \cap (DOMAIN tr') :
             /\ Phase(tr'[t], t \in QueuedNext) >= Phase(tr[t], t \in Queued)
             /\ tr[t].isDone =>
                   /\ tr'[t].state = tr[t].state
                   /\ tr'[t].progress = tr[t].progress
                   /\ t \notin QueuedNext
                   /\ t \in RegisteredNext => t \in Registered
       /\ (CancelClose /\ tr[cancel.transfer].isDone) =>
             LET u == cancelClose(Cur, cancel.transfer).tr[cancel.transfer]
             IN  /\ u.state = tr[cancel.transfer].state
                 /\ u.progress = tr[cancel.transfer].progress]_vars

\* C29: the handling of a connection status change of a peer (to offline, to
\* online, or of the connection type) leaves every transfer of that peer
\* that the registry held terminal and out of the registry, starts
\* OnFileCanceled exactly once for each of them (with the peer's address and
\* the transfer's path) and for nothing else, and starts OnConnected exactly
\* when the new status is not offline.
C29_StatusChange ==
    \A f \in FriendList, status \in Connections :
        (Running /\ (status = ConnectionNone => online[f])) =>
            LET S2 == onFriendConnectionStatusChanges(Cur, f, status)
                mine == {fn \in DOMAIN transfers : tr[transfers[fn]].friend = f}
            IN  /\ \A fn \in mine :
                      /\ fn \notin DOMAIN S2.transfers
                      /\ S2.tr[transfers[fn]].isDone
                /\ {n \in S2.notes : n.cb = "OnFileCanceled"} =
                      {[cb |-> "OnFileCanceled", address |-> addressOf(f),
                        path |-> tr[transfers[fn]].path, entry |-> fn] : fn \in mine}
                /\ Cardinality({n \in S2.notes : n.cb = "OnFileCanceled"}) = Cardinality(mine)
                /\ {n \in S2.notes : n.cb # "OnFileCanceled"} =
                      IF status = ConnectionNone THEN {} ELSE {OnConnected(addressOf(f))}

\* a status change of a peer that is online now has closed an inbound
\* transfer of that peer with Failed (a CancelFileTransfer that found it
\* before still refers to it): the registry holds no transfer of the peer and
\* the peer has no admission
C29_Witness ==
    /\ cancel.pc = "found"
    /\ tr[cancel.transfer].isDone
    /\ tr[cancel.transfer].state = StFailed
    /\ ~tr[cancel.transfer].out
    /\ online[tr[cancel.transfer].friend]
    /\ \A fn \in DOMAIN transfers : tr[transfers[fn]].friend # tr[cancel.transfer].friend
    /\ addressOf(tr[cancel.transfer].friend) \notin DOMAIN sendActive

\* C30: the handling of a control signal of a peer: a cancel for a file
\* number of the registry leaves the transfer registered under it terminal
\* with state Canceled (its callback having run for this Close, unless it was
\* terminal already) and out of the registry, and starts OnFileCanceled
\* exactly once, for it, and no other callback; a cancel for a number that
\* is not in the registry, and every other control signal, changes nothing
\* and starts no callback.
C30_RemoteCancel ==
    \A f \in FriendList, fn \in FileNumbers, control \in FileControls :
        (Running /\ fn \in DOMAIN eng /\ eng[fn].friend = f) =>
            LET S2 == onFileRecvControl(Cur, f, fn, control)
            IN  IF control = ControlCancel /\ fn \in DOMAIN transfers
                THEN LET t == transfers[fn]
                     IN  /\ S2.tr[t].isDone
                         /\ S2.tr[t].state = StCanceled
                         /\ ~tr[t].isDone => S2.tr[t].callbacks = tr[t].callbacks + 1
                         /\ fn \notin DOMAIN S2.transfers
                         /\ \A n \in (DOMAIN transfers) \ {fn} :
                               /\ n \in DOMAIN S2.transfers
                               /\ S2.transfers[n] = transfers[n]
                         /\ S2.notes = {[cb |-> "OnFileCanceled", address |-> addressOf(f),
                                         path |-> tr[t].path, entry |-> fn]}
                ELSE S2 = Cur

\* a peer's cancel signal has closed a transfer with Canceled and removed it
\* from the registry (a CancelFileTransfer that found the transfer before,
\* and has not yet called Close itself, still refers to it; Close of the
\* channel has not been called)
C30_Witness ==
    /\ cancel.pc = "found"
    /\ closePc = "idle"
    /\ tr[cancel.transfer].isDone
    /\ tr[cancel.transfer].state = StCanceled
    /\ tr[cancel.transfer].callbacks = 1
    /\ tr[cancel.transfer].closeCalls = 1
    /\ \A fn \in DOMAIN transfers : transfers[fn] # cancel.transfer

\* the tox.FileControl call a handler makes for a file number while the
\* registry holds (tracked) or does not hold that number
ControlCall(control, fn, tracked) ==
    [control |-> control, fileNumber |-> fn, tracked |-> tracked]

\* C31: the handling of a file offer of a peer: an offer that is not of kind
\* data is answered with one cancel control and nothing is registered; a data
\* offer that OnAllowFile rejects, or one arriving at a channel without
\* callbacks, registers nothing and sends no control; a data offer that
\* OnAllowFile accepts registers a new inbound transfer of that peer under the
\* engine's file number and sends one resume control, at a moment at which
\* the registry already holds the number; every other entry stays.
C31_FileOffer ==
    \A f \in FriendList, fn \in FileNumbers, kind \in FileKinds, size \in Sizes,
       accept \in BOOLEAN, path \in Paths, created \in BOOLEAN :
        (Running /\ online[f] /\ fn \in FreeNumbers(eng) /\ DOMAIN tr # TransferIds) =>
            LET S0 == [Cur EXCEPT !.eng = MapPut(@, fn, [friend |-> f, out |-> FALSE,
                                                         size |-> size])]
                S2 == onFileRecv(S0, f, fn, kind, size, accept, path, created)
            IN  IF kind # KindData
                THEN /\ S2.controls = <<ControlCall(ControlCancel, fn, fn \in DOMAIN transfers)>>
                     /\ S2.transfers = transfers
                     /\ S2.tr = tr
                ELSE IF ~accept \/ app = "none"
                THEN /\ S2.controls = <<>>
                     /\ S2.transfers = transfers
                     /\ S2.tr = tr
                ELSE /\ S2.controls = <<ControlCall(ControlResume, fn, TRUE)>>
                     /\ fn \in DOMAIN S2.transfers
                     /\ S2.transfers[fn] \notin DOMAIN tr
                     /\ LET t == S2.tr[S2.transfers[fn]]
                        IN  /\ ~t.out /\ t.friend = f /\ t.size = size /\ t.path = path
                            /\ ~t.isDone /\ t.progress = 0
                     /\ \A n \in (DOMAIN transfers) \ {fn} :
                           /\ n \in DOMAIN S2.transfers
                           /\ S2.transfers[n] = transfers[n]
                     /\ \A t \in DOMAIN tr : S2.tr[t] = tr[t]

\* an offer was accepted: the registry holds a fresh inbound transfer under a
\* file number the engine holds for the same peer
C31_Witness ==
    \E fn \in DOMAIN transfers :
        /\ fn \in DOMAIN eng
        /\ ~eng[fn].out
        /\ ~tr[transfers[fn]].out
        /\ tr[transfers[fn]].friend = eng[fn].friend
        /\ tr[transfers[fn]].progress = 0
        /\ ~tr[transfers[fn]].isDone

\* what the handling of a received chunk (position, length) of file number fn
\* of friend f has to leave, from the channel state S0 in which it starts
ChunkHandled(S0, S2, f, fn, position, length) ==
    IF fn \notin DOMAIN transfers
    THEN /\ S2.transfers = transfers
         /\ S2.tr = tr
         /\ S2.notes = {}
         /\ S2.controls = IF length = 0 THEN <<>>
                          ELSE <<ControlCall(ControlCancel, fn, FALSE)>>
    ELSE LET t == transfers[fn]
         IN  IF position + length >= tr[t].size
             THEN /\ ~S2.panic
                  /\ S2.notes = {OnFileReceived(addressOf(f), tr[t].path)}
                  /\ fn \notin DOMAIN S2.transfers
                  /\ S2.tr[t].isDone
                  /\ ~tr[t].isDone => (S2.tr[t].state = StSuccess /\ S2.tr[t].callbacks = 1)
             ELSE /\ S2.notes = {}
                  /\ fn \in DOMAIN S2.transfers
                  /\ S2.transfers[fn] = t
                  /\ S2.tr[t].isDone = tr[t].isDone

\* C32: the handling of a received chunk: OnFileReceived is started only by
\* the chunk whose end (position + length) reaches the size of the registered
\* transfer, once, and that chunk closes the transfer with state Success and
\* removes it from the registry (so that no later chunk starts it again); a
\* chunk for a file number that is not in the registry is ignored when it is
\* empty and answered with one cancel control when it is not, and registers
\* nothing.
C32_ChunkReceived ==
    \A f \in FriendList, fn \in FileNumbers, position \in Positions, length \in Lengths :
        (Running /\ fn \in DOMAIN eng /\ eng[fn].friend = f /\ ~eng[fn].out
                 /\ ChunkOf(fn, position, length)) =>
            LET S0 == IF length = 0 THEN FileControlCancel(Cur, fn) ELSE Cur
            IN  ChunkHandled(S0, onFileRecvChunk(S0, f, fn, position, length),
                             f, fn, position, length)

\* the admission of address a is in the channel state S2 what it is now
AdmissionKept(S2, a) == a \in DOMAIN S2.sendActive /\ S2.sendActive[a] = sendActive[a]

\* C33: an event of the engine for a file number of a peer changes the
\* peer's admission only when that file number is the one the admission
\* names: the handling of a control signal, of a chunk request or of a
\* received chunk for any other file number of the peer (an inbound transfer,
\* a send that has timed out) leaves the admission as it is, neither deleted
\* nor marked as started.
C33_AdmissionFrame ==
    \A f \in FriendList, fn \in FileNumbers :
        ( /\ Running
          /\ fn \in DOMAIN eng
          /\ eng[fn].friend = f
          /\ addressOf(f) \in DOMAIN sendActive
          /\ sendActive[addressOf(f)].fileNumber # fn ) =>
            /\ \A control \in FileControls :
                  LET S0 == IF control = ControlCancel THEN FileControlCancel(Cur, fn) ELSE Cur
                  IN  AdmissionKept(onFileRecvControl(S0, f, fn, control), addressOf(f))
            /\ \A position \in Positions, length \in Lengths :
                  ChunkOf(fn, position, length) =>
                     LET S0 == IF length = 0 THEN FileControlCancel(Cur, fn) ELSE Cur
                     IN  IF eng[fn].out
                         THEN \A readOk \in BOOLEAN :
                                 AdmissionKept(onFileChunkRequest(S0, f, fn, position, length,
                                                                  readOk), addressOf(f))
                         ELSE AdmissionKept(onFileRecvChunk(S0, f, fn, position, length),
                                            addressOf(f))

\* C34: once Close has returned, every transfer that SendFile created is
\* terminal, its file closed and its completion callback called exactly once:
\* the registered ones, and those still waiting in a queue of a peer.
C34_CloseEndsSends ==
    closePc = "done" =>
        \A t \in DOMAIN tr :
            tr[t].out => (tr[t].isDone /\ tr[t].fileCloses = 1 /\ tr[t].callbacks = 1)

\* C35: the first call of Close returns: once it has sent the stop signal,
\* the loop receives it and ends, and Close goes through its wait, the
\* release of the engine and the close of the transfers to its return (the
\* select is fair and every callback called by the loop returns).
C35_CloseReturns == (closePc = "stop") ~> (closePc = "done")

\* C36: a second call of Close, on a channel that a first call has closed,
\* returns (its stop signal is taken, it does not stay blocked), and no
\* transfer gets its completion callback a second time by it.
C36_SecondCloseReturns ==
    /\ (closePc = "stop2") ~> (closePc = "done2")
    /\ [](closePc \in {"stop2", "wait2", "clean2", "done2"} =>
             \A t \in DOMAIN tr : tr[t].callbacks <= 1)

\* C37: CancelFileTransfer looks for the path in the registry only: called
\* with the path of a transfer that waits in a queue while no registered
\* transfer has that path, it returns errTransferNotFound and has ended, and
\* it leaves the queues, the transfers, the registry and the admissions as
\* they are; the transfer waits on, and the visit of an admission cycle that
\* finds it at the head of the queue of a peer without admission takes it and
\* starts it (registered under the number of tox.FileSend with a fresh
\* admission, or closed Failed when FileSend fails).
C37_CancelQueued ==
    [][\A path \in Paths :
          ( /\ CancelFind(path)
            /\ cancelFound(Cur, path) = {}
            /\ \E t \in Queued : tr[t].path = path ) =>
             /\ cancelFileTransfer(Cur, path) = errTransferNotFound
             /\ cancel' = CancelIdle
             /\ UNCHANGED <<sending, tr, transfers, sendActive, eng>>
             /\ \A a \in DOMAIN sending' :
                   ( /\ sending'[a] # <<>>
                     /\ tr'[sending'[a][1]].path = path
                     /\ a \notin DOMAIN sendActive' ) =>
                      LET h == sending'[a][1]
                      IN  \A S2 \in sendStep(Cur', a) :
                             /\ S2.sending[a] = Tail(sending'[a])
                             /\ \/ /\ a \in DOMAIN S2.sendActive
                                   /\ S2.sendActive[a].fileNumber \in DOMAIN S2.transfers
                                   /\ S2.transfers[S2.sendActive[a].fileNumber] = h
                                   /\ ~S2.tr[h].isDone
                                \/ /\ a \notin DOMAIN S2.sendActive
                                   /\ S2.tr[h].isDone
                                   /\ S2.tr[h].state = StFailed]_vars

\* a transfer waits at the head of the queue of a peer that has no admission,
\* under a path that no registered transfer has, while another transfer is
\* registered and no CancelFileTransfer is under way: a call with that path
\* finds nothing
C37_Witness ==
    /\ cancel.pc = "idle"
    /\ runPc = "running"
    /\ DOMAIN transfers # {}
    /\ \E a \in DOMAIN sending :
          /\ sending[a] # <<>>
          /\ a \notin DOMAIN sendActive
          /\ cancelFound(Cur, tr[sending[a][1]].path) = {}

\* C38: no chunk is read from or written to the file of a transfer after
\* that transfer has been closed, whatever CancelFileTransfer does on its
\* thread between the engine's call of a chunk handler and the handler's body.
C38_NoIoAfterClose == \A t \in DOMAIN tr : ~tr[t].ioAfterClose

\* C39: a transfer is closed with StSuccess only when every byte of the file
\* was handed over without error: read and taken by tox.FileSendChunk for a
\* file that is sent, written for a file that is received.
C39_SuccessComplete ==
    probe.on = "deliver" => \A r \in probe.reports : r.complete

\* C40: for every chunk request (position, length) on a registered transfer
\* that is sent, in unsigned 64-bit arithmetic: the length the handler reads
\* and sends is clamped so that position + length <= size, the progress it
\* leaves never exceeds the size, and it closes the transfer with StSuccess
\* exactly when the clamped length is 0; also for a position beyond the size
\* and for a position + length that overflows the word.
C40_Clamp ==
    Running =>
        \A fn \in DOMAIN transfers, position \in Words, len \in Words, readOk \in BOOLEAN :
            LET t == transfers[fn]
                size == tr[t].size
                length == clampLength(position, len, size)
                S2 == onFileChunkRequest(Cur, tr[t].friend, fn, position, len, readOk)
            IN  ( /\ tr[t].out
                  /\ fn \in DOMAIN eng
                  /\ eng[fn].out
                  /\ readOk => ~ReadAtFails(position, length, size) ) =>
                    /\ position + length <= size
                    /\ S2.tr[t].progress <= size
                    /\ (S2.tr[t].isDone /\ S2.tr[t].state = StSuccess) <=> (length = 0)

====
